---- MODULE Spec2Model ----
(***************************************************************************)
(* Verification model of tala's intent-detection, tool-execution and       *)
(* command-safety engine (internal/ai, ai, internal/fileops).              *)
(*                                                                         *)
(* Text is modelled by TLA+ strings, character by character: the Go        *)
(* functions strings.Contains, HasPrefix, Index, ToLower, TrimSpace and    *)
(* Fields are computed on the characters, as the library computes them.    *)
(***************************************************************************)
EXTENDS Integers, Sequences, FiniteSets, TLC

(***************************************************************************)
(* Go's strings package, restricted to ASCII.                              *)
(***************************************************************************)
CharAt(s, i) == SubSeq(s, i, i)

Contains(s, p) == \E i \in 0..(Len(s) - Len(p)) : SubSeq(s, i + 1, i + Len(p)) = p

HasPrefix(s, p) == Len(s) >= Len(p) /\ SubSeq(s, 1, Len(p)) = p

HasSuffix(s, p) == Len(s) >= Len(p) /\ SubSeq(s, Len(s) - Len(p) + 1, Len(s)) = p

MinOf(S) == CHOOSE i \in S : \A j \in S : i <= j

MaxOf(S) == CHOOSE i \in S : \A j \in S : i >= j

\* the 0-based positions at which p occurs in s
Occurrences(s, p) == {i \in 0..(Len(s) - Len(p)) : SubSeq(s, i + 1, i + Len(p)) = p}

\* strings.Index: 0-based position of the first occurrence, -1 when absent
Index(s, p) == IF Occurrences(s, p) = {} THEN -1 ELSE MinOf(Occurrences(s, p))

\* strings.LastIndex: 0-based position of the last occurrence, -1 when absent
LastIndex(s, p) == IF Occurrences(s, p) = {} THEN -1 ELSE MaxOf(Occurrences(s, p))

\* strings.IndexAny: 0-based position of the first character of s that is in chars
IndexAny(s, chars) ==
    LET hits == {i \in 0..(Len(s) - 1) : CharAt(s, i + 1) \in chars}
    IN  IF hits = {} THEN -1 ELSE MinOf(hits)

UpperLetters == "ABCDEFGHIJKLMNOPQRSTUVWXYZ"

LowerLetters == "abcdefghijklmnopqrstuvwxyz"

LowerChar(c) ==
    IF \E i \in 1..26 : CharAt(UpperLetters, i) = c
    THEN CharAt(LowerLetters, CHOOSE i \in 1..26 : CharAt(UpperLetters, i) = c)
    ELSE c

UpperChar(c) ==
    IF \E i \in 1..26 : CharAt(LowerLetters, i) = c
    THEN CharAt(UpperLetters, CHOOSE i \in 1..26 : CharAt(LowerLetters, i) = c)
    ELSE c

RECURSIVE ToLower(_)
ToLower(s) ==
    IF Len(s) <= 1 THEN LowerChar(s)
    ELSE ToLower(SubSeq(s, 1, Len(s) \div 2)) \o ToLower(SubSeq(s, Len(s) \div 2 + 1, Len(s)))

RECURSIVE ToUpper(_)
ToUpper(s) ==
    IF Len(s) <= 1 THEN UpperChar(s)
    ELSE ToUpper(SubSeq(s, 1, Len(s) \div 2)) \o ToUpper(SubSeq(s, Len(s) \div 2 + 1, Len(s)))

\* unicode.IsSpace on the ASCII range
IsSpace(c) == c \in {" ", "\t", "\n", "\r", "\f"}

RECURSIVE TrimLeftSpace(_)
TrimLeftSpace(s) ==
    IF s # "" /\ IsSpace(CharAt(s, 1)) THEN TrimLeftSpace(Tail(s)) ELSE s

RECURSIVE TrimRightSpace(_)
TrimRightSpace(s) ==
    IF s # "" /\ IsSpace(CharAt(s, Len(s)))
    THEN TrimRightSpace(SubSeq(s, 1, Len(s) - 1))
    ELSE s

TrimSpace(s) == TrimRightSpace(TrimLeftSpace(s))

\* strings.Fields: the maximal runs of non-space characters, in order
RECURSIVE FieldsFrom(_, _)
FieldsFrom(s, cur) ==
    IF s = ""
    THEN IF cur = "" THEN <<>> ELSE <<cur>>
    ELSE IF IsSpace(CharAt(s, 1))
         THEN (IF cur = "" THEN <<>> ELSE <<cur>>) \o FieldsFrom(Tail(s), "")
         ELSE FieldsFrom(Tail(s), cur \o CharAt(s, 1))

Fields(s) == FieldsFrom(s, "")

\* strings.Trim(s, cutset)
RECURSIVE TrimLeftSet(_, _)
TrimLeftSet(s, cut) ==
    IF s # "" /\ CharAt(s, 1) \in cut THEN TrimLeftSet(Tail(s), cut) ELSE s

RECURSIVE TrimRightSet(_, _)
TrimRightSet(s, cut) ==
    IF s # "" /\ CharAt(s, Len(s)) \in cut
    THEN TrimRightSet(SubSeq(s, 1, Len(s) - 1), cut)
    ELSE s

Trim(s, cut) == TrimRightSet(TrimLeftSet(s, cut), cut)

TrimSuffix(s, suf) == IF HasSuffix(s, suf) THEN SubSeq(s, 1, Len(s) - Len(suf)) ELSE s

\* strings.ReplaceAll(s, old, new) for a one-character old
RECURSIVE ReplaceAll(_, _, _)
ReplaceAll(s, old, new) ==
    IF s = "" THEN ""
    ELSE (IF CharAt(s, 1) = old THEN new ELSE CharAt(s, 1)) \o ReplaceAll(Tail(s), old, new)

\* strings.Join(words, sep)
RECURSIVE Join(_, _)
Join(words, sep) ==
    IF words = <<>> THEN ""
    ELSE IF Len(words) = 1 THEN words[1]
    ELSE words[1] \o sep \o Join(Tail(words), sep)

(***************************************************************************)
(* Command Safety Policy: isCommandSafe (internal/ai/tools.go).            *)
(***************************************************************************)
dangerousPatterns ==
    << "rm -rf", "rm -r /", "mkfs", "dd if=", ":(){ :|:& };:",
       "curl", "wget", "sudo", "su ", "passwd", "useradd", "userdel",
       "chmod 777", "chown root", "systemctl", "service", "reboot",
       "shutdown", "halt", "poweroff", "mount", "umount", "fdisk",
       "parted", "format", "> /dev/", "nc ", "netcat", "ssh", "scp",
       "rsync", "crontab", "at ", "killall", "pkill", "kill -9",
       "python -c", "perl -e", "ruby -e", "node -e", "eval", "exec",
       "/bin/bash", "/bin/sh", "bash -c", "sh -c" >>

\* The backquote cannot be written inside a TLA+ string; the character "^",
\* which the policy gives no meaning of its own, stands for it in every text.
BackQuote == "^"

dangerousChars ==
    << ";", "&&", "||", "|", ">", ">>", "<", BackQuote, "$(", "$()", "../", "./" >>

safeCommands ==
    << "ls", "dir", "pwd", "cd", "echo", "cat", "head", "tail",
       "grep", "find", "which", "where", "type", "file",
       "date", "whoami", "id", "uptime", "uname", "hostname",
       "ps", "top", "df", "du", "free", "lscpu", "lsblk",
       "env", "printenv", "history", "alias",
       "wc", "sort", "uniq", "cut", "awk", "sed",
       "git status", "git log", "git branch", "git diff",
       "go version", "go list", "go mod",
       "npm list", "npm version",
       "python --version", "python3 --version",
       "node --version", "php --version",
       "java -version", "javac -version",
       "gcc --version", "clang --version" >>

\* the command as the policy looks at it: lower-cased and trimmed
NormalizeCommand(command) == ToLower(TrimSpace(command))

MatchesDangerousPattern(c) ==
    \E i \in 1..Len(dangerousPatterns) : Contains(c, dangerousPatterns[i])

MatchesDangerousChar(c) ==
    \E i \in 1..Len(dangerousChars) : Contains(c, dangerousChars[i])

\* the loop over safeCommands: strings.HasPrefix(safe, baseCommand)
BaseCommandIsSafe(baseCommand) ==
    \E i \in 1..Len(safeCommands) : HasPrefix(safeCommands[i], baseCommand)

isCommandSafe(command) ==
    LET c == NormalizeCommand(command)
        parts == Fields(c)
    IN  IF c = "" THEN FALSE
        ELSE IF MatchesDangerousPattern(c) THEN FALSE
        ELSE IF MatchesDangerousChar(c) THEN FALSE
        ELSE IF Len(parts) = 0 THEN FALSE
        ELSE IF BaseCommandIsSafe(parts[1]) THEN TRUE
        ELSE IF Contains(c, "--version") \/ Contains(c, "-version") THEN TRUE
        ELSE IF Contains(c, "--help") \/ Contains(c, "-h") THEN TRUE
        ELSE FALSE

(***************************************************************************)
(* Commands handed to the policy: a command word, up to MaxArgs argument   *)
(* words, one separator of up to MaxSpaces blanks or tabs between the      *)
(* words, and one variation (letter case, padding, a metacharacter word).  *)
(***************************************************************************)
MaxArgs == 2

MaxSpaces == 2

CommandWords == {"ls", "cat", "echo", "git", "python", "rm", "sudo", "l"}

ArgWords == {"-rf", "-c", "-h", "status", "a.txt"}

MetaWords == {";", "&&", "||", "|", ">", "<", BackQuote \o "id" \o BackQuote, "$(id)", "../x", "./x",
              "& id", "\nid"}

RECURSIVE Repeat(_, _)
Repeat(c, n) == IF n = 0 THEN "" ELSE c \o Repeat(c, n - 1)

Separators == {Repeat(c, n) : c \in {" ", "\t"}, n \in 1..MaxSpaces}

RECURSIVE ArgLists(_)
ArgLists(n) ==
    IF n = 0 THEN {<<>>}
    ELSE ArgLists(n - 1) \cup
         {Append(l, w) : l \in {m \in ArgLists(n - 1) : Len(m) = n - 1}, w \in ArgWords}

Variations == {"plain", "upper", "padded"}

BuildCommand(word, args, sep, variation) ==
    LET base == Join(<<word>> \o args, sep)
    IN  CASE variation = "plain"  -> base
          [] variation = "upper"  -> ToUpper(base)
          [] variation = "padded" -> sep \o base \o sep
          [] OTHER                -> base \o sep \o variation

CommandsUpTo(n) ==
    {"", " ", "\t "}
    \cup {BuildCommand(w, a, sep, v) :
            w \in CommandWords, a \in ArgLists(n), sep \in Separators, v \in Variations}
    \cup {BuildCommand(w, a, " ", m) :
            w \in CommandWords, a \in ArgLists(n), m \in MetaWords}

CommandInputs == CommandsUpTo(MaxArgs)

\* the commands the sandbox runner is called with
MaxShellArgs == 1

ShellCommands == CommandsUpTo(MaxShellArgs)

(***************************************************************************)
(* Command Sandbox Runner: ExecuteShellCommand (internal/ai/tools.go).     *)
(* The caller and the goroutine it starts are two processes; the child is  *)
(* the operating system's.  Durations are whole seconds.                   *)
(***************************************************************************)
MaxTimeout == 30

OutputLimit == 10000

RejectionMessage == "Error: Command blocked for security reasons"

TruncationMarker == "\n... (output truncated)"

\* the requested timeouts tried: negative, unset, inside the range, the limit, above it
Timeouts == {-1, 0, 1, MaxTimeout, MaxTimeout + 1}

ClampTimeout(timeout) == IF timeout <= 0 \/ timeout > MaxTimeout THEN MaxTimeout ELSE timeout

\* fmt's %v of a time.Duration of whole seconds below one minute
DurationString(seconds) == ToString(seconds) \o "s"

TimeoutMessage(bound) == "Command timed out after " \o DurationString(bound)

FailureMessage(err, output) == "Command failed: " \o err \o "\nOutput: " \o output

TruncateOutput(output) ==
    IF Len(output) > OutputLimit
    THEN SubSeq(output, 1, OutputLimit) \o TruncationMarker
    ELSE output

\* What "sh -c command" prints.  echo prints its arguments, blank-separated,
\* and a newline; the output of any other program is the environment's choice.
IsEcho(command) == Fields(command) # <<>> /\ Fields(command)[1] = "echo"

\* a text of n characters
RECURSIVE Filler(_)
Filler(n) ==
    IF n <= 0 THEN "" ELSE IF n = 1 THEN "x"
    ELSE Filler(n \div 2) \o Filler(n - n \div 2)

\* outputs of exactly the limit and of one character more
FullOutput == Filler(OutputLimit)

LongOutput == Filler(OutputLimit + 1)

ChildOutputs(command) ==
    IF IsEcho(command)
    THEN {Join(Tail(Fields(command)), " ") \o "\n"}
    ELSE {"", "out\n", FullOutput, LongOutput}

\* the error of cmd.CombinedOutput: "" is nil
ChildErrors(command) == IF IsEcho(command) THEN {""} ELSE {"", "exit status 1"}

NoResult == "<none>"

\* outcome names the return statement taken: rejected, timeout, failed, ok
IdleShell ==
    [command |-> "", timeout |-> 0, pc |-> "idle", verdict |-> "none", bound |-> 0,
     worker |-> "none", process |-> "nil", done |-> <<>>,
     output |-> "", err |-> "", result |-> NoResult, outcome |-> "none", spawned |-> 0,
     dir |-> ""]

CallShell(command, timeout) ==
    [IdleShell EXCEPT !.command = command, !.timeout = timeout, !.pc = "call"]

(***************************************************************************)
(* File System Service: package fileops.  The file system is a function    *)
(* from the absolute paths of the existing files to their contents, the    *)
(* set of existing directories and the process working directory.  osOK    *)
(* is the environment's choice: FALSE makes the system call fail.          *)
(***************************************************************************)
RootDir == "/w"

OSError == "permission denied"

\* filepath.Abs for names without "." and ".." elements
AbsPath(fs, path) == IF HasPrefix(path, "/") THEN path ELSE fs.cwd \o "/" \o path

\* filepath.Dir of an absolute path
ParentDir(abs) ==
    LET cut == LastIndex(abs, "/") IN IF cut <= 0 THEN "/" ELSE SubSeq(abs, 1, cut)

IsFile(fs, abs) == abs \in DOMAIN fs.files

IsDir(fs, abs) == abs \in fs.dirs

\* os.Stat does not report IsNotExist
Exists(fs, abs) == IsFile(fs, abs) \/ IsDir(fs, abs)

WriteContent(fs, abs, content) ==
    [fs EXCEPT !.files = [q \in (DOMAIN fs.files) \cup {abs} |->
                            IF q = abs THEN content ELSE fs.files[q]]]

RemovePaths(fs, gone) ==
    [fs EXCEPT !.files = [q \in (DOMAIN fs.files) \ gone |-> fs.files[q]],
               !.dirs = fs.dirs \ gone]

\* os.WriteFile and os.Create succeed when the parent directory exists, the
\* path is not a directory and the system call is not refused
CanWrite(fs, abs, osOK) == osOK /\ IsDir(fs, ParentDir(abs)) /\ ~IsDir(fs, abs)

\* the path and everything below it
Below(fs, abs) ==
    {q \in (DOMAIN fs.files) \cup fs.dirs :
        q = abs \/ HasPrefix(q, IF abs = "/" THEN abs ELSE abs \o "/")}

\* the directories os.MkdirAll has to find or make: the path and its ancestors
RECURSIVE Ancestors(_)
Ancestors(abs) == IF abs = "/" THEN {"/"} ELSE {abs} \cup Ancestors(ParentDir(abs))

\* os.Rename of a file or of a directory with what is below it
Renamed(q, from, to) ==
    IF q = from THEN to
    ELSE IF HasPrefix(q, from \o "/") THEN to \o SubSeq(q, Len(from) + 1, Len(q))
    ELSE q

RenamePaths(fs, from, to) ==
    LET kept == {q \in DOMAIN fs.files : Renamed(q, from, to) = q /\ q # to}
        moved == {q \in DOMAIN fs.files : Renamed(q, from, to) # q}
    IN  [files |-> [n \in kept \cup {Renamed(q, from, to) : q \in moved} |->
                      IF \E q \in moved : Renamed(q, from, to) = n
                      THEN fs.files[CHOOSE q \in moved : Renamed(q, from, to) = n]
                      ELSE fs.files[n]],
         dirs |-> {Renamed(q, from, to) : q \in fs.dirs},
         cwd |-> Renamed(fs.cwd, from, to)]

FileOperation(success, message, fs) == [Success |-> success, Message |-> message, fs |-> fs]

\* the names a directory listing can show, in the order os.ReadDir returns them
EntryOrder == <<"b.txt", "docs", "notes.txt">>

RECURSIVE ListEntries(_, _, _)
ListEntries(fs, dir, names) ==
    IF names = <<>> THEN ""
    ELSE LET abs == dir \o "/" \o Head(names)
             line == IF IsDir(fs, abs) THEN "(dir) " \o Head(names) \o "\n"
                     ELSE IF IsFile(fs, abs) THEN "(file) " \o Head(names) \o "\n"
                     ELSE ""
         IN  line \o ListEntries(fs, dir, Tail(names))

ListDirectory(fs, path, osOK) ==
    IF path = "" /\ ~IsDir(fs, fs.cwd)
    THEN FileOperation(FALSE, "Failed to get current directory: " \o OSError, fs)
    ELSE LET dir == IF path = "" THEN fs.cwd ELSE path
         IN  IF ~osOK \/ ~IsDir(fs, AbsPath(fs, dir))
             THEN FileOperation(FALSE, "Failed to read directory '" \o dir \o "': " \o OSError, fs)
             ELSE FileOperation(TRUE, "Contents of " \o dir \o ":\n"
                                        \o ListEntries(fs, AbsPath(fs, dir), EntryOrder), fs)

CreateFile(fs, filename, content, osOK) ==
    IF filename = ""
    THEN FileOperation(FALSE, "Filename cannot be empty", fs)
    ELSE IF ~CanWrite(fs, AbsPath(fs, filename), osOK)
    THEN FileOperation(FALSE, "Failed to create file '" \o filename \o "': " \o OSError, fs)
    ELSE FileOperation(TRUE, "Created file '" \o filename \o "'",
                       WriteContent(fs, AbsPath(fs, filename), content))

ReadFile(fs, filename, osOK) ==
    IF filename = ""
    THEN FileOperation(FALSE, "Filename cannot be empty", fs)
    ELSE IF ~osOK \/ ~IsFile(fs, AbsPath(fs, filename))
    THEN FileOperation(FALSE, "Failed to read file '" \o filename \o "': " \o OSError, fs)
    ELSE FileOperation(TRUE, "Content of '" \o filename \o "':\n"
                               \o fs.files[AbsPath(fs, filename)], fs)

UpdateFile(fs, filename, content, osOK) ==
    IF filename = ""
    THEN FileOperation(FALSE, "Filename cannot be empty", fs)
    ELSE IF ~Exists(fs, AbsPath(fs, filename))
    THEN FileOperation(FALSE, "File '" \o filename \o "' does not exist", fs)
    ELSE IF ~CanWrite(fs, AbsPath(fs, filename), osOK)
    THEN FileOperation(FALSE, "Failed to update file '" \o filename \o "': " \o OSError, fs)
    ELSE FileOperation(TRUE, "Updated file '" \o filename \o "'",
                       WriteContent(fs, AbsPath(fs, filename), content))

DeleteFile(fs, filename, osOK) ==
    IF filename = ""
    THEN FileOperation(FALSE, "Filename cannot be empty", fs)
    ELSE IF ~Exists(fs, AbsPath(fs, filename))
    THEN FileOperation(FALSE, "File '" \o filename \o "' does not exist", fs)
    ELSE IF ~osOK \/ Below(fs, AbsPath(fs, filename)) # {AbsPath(fs, filename)}
    THEN FileOperation(FALSE, "Failed to delete file '" \o filename \o "': " \o OSError, fs)
    ELSE FileOperation(TRUE, "Deleted file '" \o filename \o "'",
                       RemovePaths(fs, {AbsPath(fs, filename)}))

CreateDirectory(fs, dirname, osOK) ==
    IF dirname = ""
    THEN FileOperation(FALSE, "Directory name cannot be empty", fs)
    ELSE IF \/ ~osOK
            \/ ~HasPrefix(dirname, "/") /\ ~IsDir(fs, fs.cwd)
            \/ \E a \in Ancestors(AbsPath(fs, dirname)) : IsFile(fs, a)
    THEN FileOperation(FALSE, "Failed to create directory '" \o dirname \o "': " \o OSError, fs)
    ELSE FileOperation(TRUE, "Created directory '" \o dirname \o "'",
                       [fs EXCEPT !.dirs = @ \cup Ancestors(AbsPath(fs, dirname))])

DeleteDirectory(fs, dirname, osOK) ==
    IF dirname = ""
    THEN FileOperation(FALSE, "Directory name cannot be empty", fs)
    ELSE IF ~Exists(fs, AbsPath(fs, dirname))
    THEN FileOperation(FALSE, "Directory '" \o dirname \o "' does not exist", fs)
    ELSE IF ~osOK
    THEN FileOperation(FALSE, "Failed to delete directory '" \o dirname \o "': " \o OSError, fs)
    ELSE FileOperation(TRUE, "Deleted directory '" \o dirname \o "'",
                       RemovePaths(fs, Below(fs, AbsPath(fs, dirname))))

\* os.Create(dst) truncates dst before io.Copy reads from the open source
CopyFile(fs, src, dst, osOK) ==
    IF src = "" \/ dst = ""
    THEN FileOperation(FALSE, "Source and destination filenames cannot be empty", fs)
    ELSE IF ~Exists(fs, AbsPath(fs, src))
    THEN FileOperation(FALSE, "Source file '" \o src \o "' does not exist", fs)
    ELSE IF ~CanWrite(fs, AbsPath(fs, dst), osOK)
    THEN FileOperation(FALSE, "Failed to create destination file '" \o dst \o "': " \o OSError, fs)
    ELSE IF IsDir(fs, AbsPath(fs, src))
    THEN FileOperation(FALSE, "Failed to copy file: " \o OSError,
                       WriteContent(fs, AbsPath(fs, dst), ""))
    ELSE LET truncated == WriteContent(fs, AbsPath(fs, dst), "")
         IN  FileOperation(TRUE, "Copied '" \o src \o "' to '" \o dst \o "'",
                           WriteContent(truncated, AbsPath(fs, dst),
                                        truncated.files[AbsPath(fs, src)]))

MoveFile(fs, src, dst, osOK) ==
    IF src = "" \/ dst = ""
    THEN FileOperation(FALSE, "Source and destination filenames cannot be empty", fs)
    ELSE IF ~Exists(fs, AbsPath(fs, src))
    THEN FileOperation(FALSE, "Source file '" \o src \o "' does not exist", fs)
    ELSE IF AbsPath(fs, src) = AbsPath(fs, dst)
    THEN FileOperation(TRUE, "Moved '" \o src \o "' to '" \o dst \o "'", fs)
    ELSE IF \/ ~osOK
            \/ ~IsDir(fs, ParentDir(AbsPath(fs, dst)))
            \/ IsFile(fs, AbsPath(fs, src)) /\ IsDir(fs, AbsPath(fs, dst))
            \/ IsDir(fs, AbsPath(fs, src)) /\ IsFile(fs, AbsPath(fs, dst))
            \/ IsDir(fs, AbsPath(fs, src)) /\ Below(fs, AbsPath(fs, dst)) \ {AbsPath(fs, dst)} # {}
            \/ HasPrefix(AbsPath(fs, dst), AbsPath(fs, src) \o "/")
    THEN FileOperation(FALSE, "Failed to move file from '" \o src \o "' to '" \o dst
                                \o "': " \o OSError, fs)
    ELSE FileOperation(TRUE, "Moved '" \o src \o "' to '" \o dst \o "'",
                       RenamePaths(fs, AbsPath(fs, src), AbsPath(fs, dst)))

GetWorkingDirectory(fs) ==
    IF ~IsDir(fs, fs.cwd)
    THEN FileOperation(FALSE, "Failed to get working directory: " \o OSError, fs)
    ELSE FileOperation(TRUE, "Current working directory: " \o fs.cwd, fs)

\* ChangeDirectory that has changed the directory when it reports a failure
ChangeDirectoryOnFailure(fs, path, osOK) ==
    IF path = ""
    THEN FileOperation(FALSE, "Path cannot be empty", fs)
    ELSE IF ~Exists(fs, AbsPath(fs, path)) \/ ~IsDir(fs, AbsPath(fs, path))
    THEN FileOperation(FALSE, "Directory '" \o AbsPath(fs, path) \o "' does not exist", fs)
    ELSE FileOperation(osOK, IF osOK THEN "Changed directory to '" \o AbsPath(fs, path) \o "'"
                             ELSE "Failed to change directory to '" \o AbsPath(fs, path)
                                    \o "': " \o OSError,
                       [fs EXCEPT !.cwd = AbsPath(fs, path)])

ChangeDirectory(fs, path, osOK) ==
    IF path = ""
    THEN FileOperation(FALSE, "Path cannot be empty", fs)
    ELSE IF ~HasPrefix(path, "/") /\ ~IsDir(fs, fs.cwd)
    THEN FileOperation(FALSE, "Failed to resolve path '" \o path \o "': " \o OSError, fs)
    ELSE IF ~Exists(fs, AbsPath(fs, path))
    THEN FileOperation(FALSE, "Directory '" \o AbsPath(fs, path) \o "' does not exist", fs)
    ELSE IF ~osOK \/ ~IsDir(fs, AbsPath(fs, path))
    THEN FileOperation(FALSE, "Failed to change directory to '" \o AbsPath(fs, path)
                                \o "': " \o OSError, fs)
    ELSE FileOperation(TRUE, "Changed directory to '" \o AbsPath(fs, path) \o "'",
                       [fs EXCEPT !.cwd = AbsPath(fs, path)])

InitialFS == [files |-> <<>>, dirs |-> {"/", RootDir}, cwd |-> RootDir]

VARIABLES policy, shell, fs, call, turn, parse, app, tui, stream

vars == <<policy, shell, fs, call, turn, parse, app, tui, stream>>

\* the policy applied to one command: Evaluate(command) -> verdict
IdlePolicy == [command |-> "", verdict |-> "none"]

EvaluatePolicy ==
    /\ policy.verdict = "none"
    /\ policy' = [policy EXCEPT
                    !.verdict = IF isCommandSafe(policy.command) THEN "safe" ELSE "denied"]
    /\ UNCHANGED <<shell, fs, call, turn, parse, app, tui, stream>>

\* ShellCall with the policy consulted only for the blank command
ShellCallBlankOnly ==
    /\ shell.pc = "call"
    /\ IF TrimSpace(shell.command) = ""
       THEN shell' = [shell EXCEPT !.verdict = "denied", !.pc = "returned",
                                   !.result = RejectionMessage, !.outcome = "rejected"]
       ELSE shell' = [shell EXCEPT !.verdict = "safe", !.pc = "select",
                                   !.bound = ClampTimeout(shell.timeout),
                                   !.worker = "started"]

\* ExecuteShellCommand up to the go statement: the policy, the clamp, the channel
ShellCall ==
    /\ shell.pc = "call"
    /\ IF ~isCommandSafe(shell.command)
       THEN shell' = [shell EXCEPT !.verdict = "denied", !.pc = "returned",
                                   !.result = RejectionMessage, !.outcome = "rejected"]
       ELSE shell' = [shell EXCEPT !.verdict = "safe", !.pc = "select",
                                   !.bound = ClampTimeout(shell.timeout),
                                   !.worker = "started"]

\* the directory a "cd" command names, "" for every other command
CdTarget(command) ==
    IF Len(Fields(command)) >= 2 /\ Fields(command)[1] = "cd"
    THEN Fields(command)[2] ELSE ""

\* the goroutine: cmd.CombinedOutput starts the child and sets cmd.Process.
\* The child is a process of its own: it starts in the working directory of
\* the caller's process and keeps its own from then on.
WorkerStart ==
    /\ shell.worker = "started"
    /\ shell' = [shell EXCEPT !.worker = "waiting", !.process = "running",
                              !.spawned = @ + 1, !.dir = fs.cwd]

\* the child ends by itself; CombinedOutput returns its output and exit error
ChildExit ==
    /\ shell.worker = "waiting"
    /\ shell.process = "running"
    /\ \E out \in ChildOutputs(shell.command), e \in ChildErrors(shell.command) :
         shell' = [shell EXCEPT
                     !.process = "exited", !.worker = "finished",
                     !.output = out, !.err = e,
                     !.dir = IF /\ CdTarget(shell.command) # ""
                                /\ IsDir(fs, AbsPath(fs, CdTarget(shell.command)))
                             THEN AbsPath(fs, CdTarget(shell.command)) ELSE @]

\* the child was killed; CombinedOutput returns what it had and the signal
ChildKilled ==
    /\ shell.worker = "waiting"
    /\ shell.process = "killed"
    /\ shell' = [shell EXCEPT !.worker = "finished", !.output = "",
                              !.err = "signal: killed"]

\* done <- err on a channel without buffer: the send needs the caller's receive
WorkerSendUnbuffered ==
    /\ shell.worker = "finished"
    /\ shell.pc = "select"
    /\ Len(shell.done) < 1
    /\ shell' = [shell EXCEPT !.worker = "sent", !.done = Append(@, shell.err)]

\* the goroutine: done <- err, on a channel of capacity 1
WorkerSend ==
    /\ shell.worker = "finished"
    /\ Len(shell.done) < 1
    /\ shell' = [shell EXCEPT !.worker = "sent", !.done = Append(@, shell.err)]

\* select case <-time.After(timeout).  cmd.Process is written by the goroutine
\* without synchronisation, so the caller may or may not see a started process.
ShellTimeout ==
    /\ shell.pc = "select"
    /\ \E seen \in (IF shell.process = "nil" THEN {FALSE} ELSE {TRUE, FALSE}) :
         shell' = [shell EXCEPT
                     !.process = IF seen /\ @ = "running" THEN "killed" ELSE @,
                     !.pc = "returned",
                     !.outcome = "timeout",
                     !.result = TimeoutMessage(shell.bound)]

\* select case execErr := <-done, and the rest of the function
ShellReceive ==
    /\ shell.pc = "select"
    /\ shell.done # <<>>
    /\ LET execErr == Head(shell.done)
       IN  shell' = [shell EXCEPT
                       !.done = Tail(@),
                       !.pc = "returned",
                       !.outcome = IF execErr # "" THEN "failed" ELSE "ok",
                       !.result = IF execErr # ""
                                  THEN FailureMessage(execErr, shell.output)
                                  ELSE TruncateOutput(shell.output)]

ShellStep ==
  /\ UNCHANGED <<policy, fs, call, turn, parse, app, tui, stream>>
  /\
    \/ ShellCall
    \/ WorkerStart
    \/ ChildExit
    \/ ChildKilled
    \/ WorkerSend
    \/ ShellTimeout
    \/ ShellReceive

(***************************************************************************)
(* Tool Registry and Executor: GetAvailableTools, ExecuteTool              *)
(* (internal/ai/tools.go).  An argument map is a function from parameter   *)
(* names to values; a value is a string or a number, numbers in tenths.    *)
(***************************************************************************)
ToolNames ==
    << "list_files", "read_file", "create_file", "update_file", "delete_file",
       "create_directory", "delete_directory", "copy_file", "move_file",
       "get_working_directory", "change_directory", "execute_command",
       "list_processes", "get_system_info" >>

IsRegistered(name) == \E i \in 1..Len(ToolNames) : ToolNames[i] = name

\* the "required" entry of each tool's parameter schema
RequiredParams(name) ==
    CASE name \in {"read_file", "delete_file"}  -> {"filename"}
      [] name \in {"create_file", "update_file"} -> {"filename", "content"}
      [] name \in {"create_directory", "delete_directory"} -> {"dirname"}
      [] name \in {"copy_file", "move_file"}     -> {"source", "destination"}
      [] name = "change_directory"               -> {"path"}
      [] name = "execute_command"                -> {"command"}
      [] OTHER                                   -> {}

StringValue(text) == [type |-> "string", val |-> text]

NumberValue(tenths) == [type |-> "number", val |-> tenths]

\* v, ok := args[key].(string)
IsString(args, key) == key \in DOMAIN args /\ args[key].type = "string"

StringOf(args, key) == IF IsString(args, key) THEN args[key].val ELSE ""

\* t, ok := args[key].(float64)
IsNumber(args, key) == key \in DOMAIN args /\ args[key].type = "number"

DefaultToolTimeout == 30

\* time.Duration(timeout) * time.Second: the conversion drops the fraction
ToolTimeout(args) ==
    IF IsNumber(args, "timeout") /\ args["timeout"].val > 0
    THEN args["timeout"].val \div 10
    ELSE DefaultToolTimeout

\* strings.Split(s, "\n")
RECURSIVE SplitLines(_, _)
SplitLines(s, cur) ==
    IF s = "" THEN <<cur>>
    ELSE IF CharAt(s, 1) = "\n" THEN <<cur>> \o SplitLines(Tail(s), "")
    ELSE SplitLines(Tail(s), cur \o CharAt(s, 1))

RECURSIVE FilterLines(_, _)
FilterLines(lines, filter) ==
    IF lines = <<>> THEN <<>>
    ELSE (IF Contains(ToLower(Head(lines)), ToLower(filter)) THEN <<Head(lines)>> ELSE <<>>)
         \o FilterLines(Tail(lines), filter)

\* what "ps aux" and "uname -a" print on the machine modelled
PsOutput == "PID COMMAND\n1 init\n2 tala\n"

UnameOutput == "Linux w 6.1\n"

SystemInfo == "OS: linux\nArchitecture: amd64\nCPUs: 2"

\* the result of a tool's Execute closure: the text it returns, the
\* FileOperation.Success (or exec error) it saw and dropped, the file system
\* it leaves, and the number of helper processes (ps, uname) it started
Executed(content, opOK, newFs, helpers) ==
    [content |-> content, opOK |-> opOK, fs |-> newFs, helpers |-> helpers]

ParamError(message, oldFs) == Executed(message, FALSE, oldFs, 0)

FromOperation(op) == Executed(op.Message, op.Success, op.fs, 0)

\* every tool but execute_command, which runs the sandbox
Execute(name, args, f, osOK) ==
    CASE name = "list_files" ->
           FromOperation(ListDirectory(f, StringOf(args, "path"), osOK))
      [] name = "read_file" ->
           IF ~IsString(args, "filename")
           THEN ParamError("Error: filename is required", f)
           ELSE FromOperation(ReadFile(f, StringOf(args, "filename"), osOK))
      [] name = "create_file" ->
           IF ~IsString(args, "filename") \/ ~IsString(args, "content")
           THEN ParamError("Error: filename and content are required", f)
           ELSE FromOperation(CreateFile(f, StringOf(args, "filename"),
                                         StringOf(args, "content"), osOK))
      [] name = "update_file" ->
           IF ~IsString(args, "filename") \/ ~IsString(args, "content")
           THEN ParamError("Error: filename and content are required", f)
           ELSE FromOperation(UpdateFile(f, StringOf(args, "filename"),
                                         StringOf(args, "content"), osOK))
      [] name = "delete_file" ->
           IF ~IsString(args, "filename")
           THEN ParamError("Error: filename is required", f)
           ELSE FromOperation(DeleteFile(f, StringOf(args, "filename"), osOK))
      [] name = "create_directory" ->
           IF ~IsString(args, "dirname")
           THEN ParamError("Error: dirname is required", f)
           ELSE FromOperation(CreateDirectory(f, StringOf(args, "dirname"), osOK))
      [] name = "delete_directory" ->
           IF ~IsString(args, "dirname")
           THEN ParamError("Error: dirname is required", f)
           ELSE FromOperation(DeleteDirectory(f, StringOf(args, "dirname"), osOK))
      [] name = "copy_file" ->
           IF ~IsString(args, "source") \/ ~IsString(args, "destination")
           THEN ParamError("Error: source and destination are required", f)
           ELSE FromOperation(CopyFile(f, StringOf(args, "source"),
                                       StringOf(args, "destination"), osOK))
      [] name = "move_file" ->
           IF ~IsString(args, "source") \/ ~IsString(args, "destination")
           THEN ParamError("Error: source and destination are required", f)
           ELSE FromOperation(MoveFile(f, StringOf(args, "source"),
                                       StringOf(args, "destination"), osOK))
      [] name = "get_working_directory" ->
           FromOperation(GetWorkingDirectory(f))
      [] name = "change_directory" ->
           IF ~IsString(args, "path")
           THEN ParamError("Error: path is required", f)
           ELSE FromOperation(ChangeDirectory(f, StringOf(args, "path"), osOK))
      [] name = "execute_command" ->
           ParamError("Error: command is required", f)
      [] name = "list_processes" ->
           IF ~osOK
           THEN Executed("Error listing processes: " \o OSError, FALSE, f, 1)
           ELSE IF StringOf(args, "filter") # ""
           THEN Executed(Join(FilterLines(SplitLines(PsOutput, ""), StringOf(args, "filter")), "\n"),
                         TRUE, f, 1)
           ELSE Executed(PsOutput, TRUE, f, 1)
      [] name = "get_system_info" ->
           Executed(SystemInfo \o (IF osOK THEN "\nKernel: " \o TrimSpace(UnameOutput) ELSE ""),
                    TRUE, f, 1)

\* a verdict that looks for "Failed" only
SuccessOfFailedOnly(content) == ~HasPrefix(content, "Failed")

\* ExecuteTool's verdict on the text a tool returned
SuccessOf(content) == ~HasPrefix(content, "Error") /\ ~HasPrefix(content, "Failed")

ToolResult(name, content, success) == [Name |-> name, Content |-> content, Success |-> success]

NoToolResult == ToolResult("", "", FALSE)

\* one ExecuteTool call: pc is idle, start, shell (inside the sandbox) or done;
\* opOK and helpers are what Execute reported, kept for the properties
IdleCall ==
    [name |-> "", args |-> <<>>, pc |-> "idle", result |-> NoToolResult,
     opOK |-> FALSE, helpers |-> 0, ranTool |-> FALSE]

StartCall(name, args) == [IdleCall EXCEPT !.name = name, !.args = args, !.pc = "start"]

RunsSandbox(c) == c.name = "execute_command" /\ IsString(c.args, "command")

\* the loop of ExecuteTool found no tool of that name
ExecuteToolUnknown ==
    /\ call.pc = "start"
    /\ ~IsRegistered(call.name)
    /\ call' = [call EXCEPT !.pc = "done",
                            !.result = ToolResult(call.name, "Unknown tool: " \o call.name, FALSE)]
    /\ UNCHANGED <<policy, shell, fs, turn, parse, app, tui, stream>>

\* tool.Execute(args) of every tool that does not reach the sandbox, and the
\* ToolResult built from its text
ExecuteToolDirect ==
    /\ call.pc = "start"
    /\ IsRegistered(call.name)
    /\ ~RunsSandbox(call)
    /\ \E osOK \in BOOLEAN :
         LET r == Execute(call.name, call.args, fs, osOK)
         IN  /\ fs' = r.fs
             /\ call' = [call EXCEPT !.pc = "done", !.ranTool = TRUE,
                                     !.opOK = r.opOK, !.helpers = r.helpers,
                                     !.result = ToolResult(call.name, r.content,
                                                           SuccessOf(r.content))]
    /\ UNCHANGED <<policy, shell, turn, parse, app, tui, stream>>

\* execute_command.Execute calls ExecuteShellCommand(command, timeout)
ExecuteToolCommand ==
    /\ call.pc = "start"
    /\ IsRegistered(call.name)
    /\ RunsSandbox(call)
    /\ shell' = CallShell(StringOf(call.args, "command"), ToolTimeout(call.args))
    /\ call' = [call EXCEPT !.pc = "shell", !.ranTool = TRUE]
    /\ UNCHANGED <<policy, fs, turn, parse, app, tui, stream>>

\* ExecuteShellCommand returned; ExecuteTool builds the ToolResult from its
\* text.  The command, the channel and the goroutine are local to the call:
\* the model drops them here.
ExecuteToolReturn ==
    /\ call.pc = "shell"
    /\ shell.pc = "returned"
    /\ call' = [call EXCEPT !.pc = "done",
                            !.opOK = (shell.outcome = "ok"),
                            !.result = ToolResult(call.name, shell.result,
                                                  SuccessOf(shell.result))]
    /\ shell' = IdleShell
    /\ UNCHANGED <<policy, fs, turn, parse, app, tui, stream>>

ExecuteTool ==
    \/ ExecuteToolUnknown
    \/ ExecuteToolDirect
    \/ ExecuteToolCommand
    \/ ExecuteToolReturn

(***************************************************************************)
(* ExecuteTool called directly, on every tool and on argument maps that    *)
(* are complete, incomplete or wrongly typed.                              *)
(***************************************************************************)
Missing == [type |-> "missing", val |-> ""]

\* the argument map with the given entries, without those that are Missing
ArgMap(entries) ==
    LET present == {i \in 1..Len(entries) : entries[i][2] # Missing}
    IN  [k \in {entries[i][1] : i \in present} |->
            entries[CHOOSE i \in present : entries[i][1] = k][2]]

FileArgs == {Missing, NumberValue(10), StringValue(""), StringValue("notes.txt"),
             StringValue("b.txt")}

ContentArgs == {Missing, StringValue("Hello there")}

\* directories are named by absolute paths, which keeps their nesting bounded
DirArgs == {Missing, StringValue(""), StringValue("/w/docs"), StringValue("/w")}

CommandArgs == {Missing, NumberValue(10), StringValue(""), StringValue("echo Error"),
                StringValue("ls -la"), StringValue("sudo rm -rf /tmp"),
                StringValue("cd /w/docs")}

TimeoutArgs == {Missing, NumberValue(5), NumberValue(10), NumberValue(310)}

FilterArgs == {Missing, StringValue("init"), StringValue("zzz")}

ArgsFor(name) ==
    CASE name \in {"read_file", "delete_file"} ->
           {ArgMap(<< <<"filename", f>> >>) : f \in FileArgs}
      [] name \in {"create_file", "update_file"} ->
           {ArgMap(<< <<"filename", f>>, <<"content", c>> >>) : f \in FileArgs, c \in ContentArgs}
      [] name \in {"create_directory", "delete_directory"} ->
           {ArgMap(<< <<"dirname", d>> >>) : d \in DirArgs}
      [] name \in {"copy_file", "move_file"} ->
           {ArgMap(<< <<"source", a>>, <<"destination", b>> >>) : a \in FileArgs, b \in FileArgs}
      [] name \in {"change_directory", "list_files"} ->
           {ArgMap(<< <<"path", d>> >>) : d \in DirArgs}
      [] name = "execute_command" ->
           {ArgMap(<< <<"command", c>>, <<"timeout", t>> >>) : c \in CommandArgs, t \in TimeoutArgs}
      [] name = "list_processes" ->
           {ArgMap(<< <<"filter", x>> >>) : x \in FilterArgs}
      [] OTHER ->
           {ArgMap(<< <<"filename", f>> >>) : f \in {Missing, StringValue("notes.txt")}}

UnknownNames == {"unknown_tool", "List_Files", ""}

CallInputs ==
    UNION {{StartCall(n, a) : a \in ArgsFor(n)} :
             n \in {ToolNames[i] : i \in 1..Len(ToolNames)} \cup UnknownNames}

\* a caller invokes ExecuteTool(name, args)
CallExecuteTool ==
    /\ call.pc = "idle"
    /\ call' \in CallInputs
    /\ UNCHANGED <<policy, shell, fs, turn, parse, app, tui, stream>>

\* the caller has the ToolResult
TakeToolResult ==
    /\ call.pc = "done"
    /\ call' = IdleCall
    /\ UNCHANGED <<policy, shell, fs, turn, parse, app, tui, stream>>

(***************************************************************************)
(* Intent Detector (internal/ai/intent.go).  A confidence is a number of   *)
(* hundredths: 80 is the 0.8 of the code.                                  *)
(***************************************************************************)
Intent(action, tool, parameters, confidence) ==
    [Action |-> action, Tool |-> tool, Parameters |-> parameters, Confidence |-> confidence]

\* make(map[string]interface{})
NoParameters == ArgMap(<<>>)

ToolDescriptions ==
    << "List files and directories in the current directory or specified path",
       "Read the contents of a file",
       "Create a new file with specified content",
       "Update an existing file with new content",
       "Delete a file",
       "Create a new directory",
       "Delete a directory and its contents",
       "Copy a file from source to destination",
       "Move/rename a file from source to destination",
       "Get the current working directory",
       "Change the current working directory",
       "Execute a shell/bash command in the current directory",
       "List running processes",
       "Get system information (OS, architecture, etc.)" >>

RECURSIVE ToolLines(_)
ToolLines(i) ==
    IF i > Len(ToolNames) THEN ""
    ELSE "- " \o ToolNames[i] \o ": " \o ToolDescriptions[i] \o "\n" \o ToolLines(i + 1)

PromptHead ==
    "You are a conservative intent detection system. Only detect tool usage when the user explicitly requests file operations, commands, or system actions.\n\n"
    \o "DO NOT detect intents for:\n- Greetings (hi, hello, hey)\n- General questions\n"
    \o "- Casual conversation\n- Abstract requests\n\nAvailable tools and their purposes:\n"

PromptTail ==
    "\nRespond with JSON containing an array of detected intents. Each intent should have:\n"
    \o "- \"action\": brief description of what the user wants to do\n"
    \o "- \"tool\": the tool name to use (from the list above)\n"
    \o "- \"parameters\": object with the parameters for the tool\n"
    \o "- \"confidence\": number between 0-1 indicating confidence\n\n"
    \o "Only detect intents with confidence > 0.8 when user explicitly mentions:\n"
    \o "- File operations (create, read, write, delete specific files)\n"
    \o "- Directory operations (list, create, delete directories)\n"
    \o "- System commands (run specific commands)\n\n"
    \o "For general conversation, greetings, or questions, respond with: []\n\n"
    \o "User input: \""

createIntentDetectionPrompt(userInput) ==
    PromptHead \o ToolLines(1) \o PromptTail \o userInput \o "\"\n\nJSON response:"

(***************************************************************************)
(* encoding/json on intent arrays.  The arrays a model writes are the      *)
(* texts Marshal gives for the lists of IntentLists; json.Unmarshal gives  *)
(* back the list of such a text and fails on every other text.             *)
(***************************************************************************)
Digits == "0123456789"

\* a number of hundredths as a JSON number: 90 -> 0.9, 85 -> 0.85, 150 -> 1.5
Hundredths(n) ==
    ToString(n \div 100)
      \o (IF n % 100 = 0 THEN ""
          ELSE "." \o CharAt(Digits, ((n % 100) \div 10) + 1)
                   \o (IF n % 10 = 0 THEN "" ELSE CharAt(Digits, (n % 10) + 1)))

\* a number of tenths as a JSON number: 50 -> 5, 5 -> 0.5
Tenths(n) ==
    ToString(n \div 10) \o (IF n % 10 = 0 THEN "" ELSE "." \o CharAt(Digits, (n % 10) + 1))

Quoted(text) == "\"" \o text \o "\""

MarshalValue(v) == IF v.type = "string" THEN Quoted(v.val) ELSE Tenths(v.val)

\* the keys of a JSON object, in the order encoding/json writes them
ParameterKeys ==
    << "command", "content", "destination", "dirname", "filename", "filter", "path",
       "source", "timeout" >>

RECURSIVE MarshalEntries(_, _)
MarshalEntries(params, i) ==
    IF i > Len(ParameterKeys) THEN <<>>
    ELSE (IF ParameterKeys[i] \in DOMAIN params
          THEN << Quoted(ParameterKeys[i]) \o ":" \o MarshalValue(params[ParameterKeys[i]]) >>
          ELSE <<>>)
         \o MarshalEntries(params, i + 1)

MarshalIntent(intent) ==
    "{" \o Quoted("action") \o ":" \o Quoted(intent.Action)
        \o "," \o Quoted("tool") \o ":" \o Quoted(intent.Tool)
        \o "," \o Quoted("parameters") \o ":{"
        \o Join(MarshalEntries(intent.Parameters, 1), ",") \o "}"
        \o "," \o Quoted("confidence") \o ":" \o Hundredths(intent.Confidence) \o "}"

Marshal(intents) ==
    "[" \o Join([i \in 1..Len(intents) |-> MarshalIntent(intents[i])], ",") \o "]"

MaxIntents == 2

\* the intent objects a model reply may carry: confidences on both sides of
\* each threshold, a tool that is not registered, a confidence outside 0..1
IntentObjects ==
    { Intent("create file", "create_file",
             ArgMap(<< <<"filename", StringValue("notes.txt")>>,
                       <<"content", StringValue("Hello there")>> >>), 90),
      Intent("remove file", "delete_file",
             ArgMap(<< <<"filename", StringValue("notes.txt")>> >>), 81),
      Intent("list files", "list_files", NoParameters, 80),
      Intent("run command", "execute_command",
             ArgMap(<< <<"command", StringValue("echo [ok]")>>,
                       <<"timeout", NumberValue(5)>> >>), 60),
      Intent("guess", "", NoParameters, 150) }

RECURSIVE ListsOver(_, _)
ListsOver(objects, n) ==
    IF n = 0 THEN {<<>>}
    ELSE ListsOver(objects, n - 1)
           \cup {Append(l, o) : l \in {x \in ListsOver(objects, n - 1) : Len(x) = n - 1},
                                o \in objects}

IntentLists == ListsOver(IntentObjects, MaxIntents)

\* the JSON text of every list of IntentLists
MarshalTable == [l \in IntentLists |-> Marshal(l)]

\* err := json.Unmarshal([]byte(jsonStr), &intents)
Unmarshal(jsonStr) ==
    IF \E l \in IntentLists : MarshalTable[l] = jsonStr
    THEN [ok |-> TRUE, intents |-> CHOOSE l \in IntentLists : MarshalTable[l] = jsonStr]
    ELSE [ok |-> FALSE, intents |-> <<>>]

\* extractCommand's patterns
commandPatterns == << "run ", "execute ", "command ", "bash ", "shell " >>

RECURSIVE extractCommandFrom(_, _)
extractCommandFrom(text, i) ==
    IF i > Len(commandPatterns) THEN ""
    ELSE IF Index(text, commandPatterns[i]) # -1
    THEN LET remainder == SubSeq(text, Index(text, commandPatterns[i])
                                         + Len(commandPatterns[i]) + 1, Len(text))
             endIdx    == IndexAny(remainder, {".", "!", "?", "\n"})
         IN  IF endIdx # -1
             THEN TrimSpace(SubSeq(remainder, 1, endIdx))
             ELSE TrimSpace(remainder)
    ELSE extractCommandFrom(text, i + 1)

extractCommand(text) == extractCommandFrom(text, 1)

RECURSIVE extractIntentsFromLower(_, _)
extractIntentsFromLower(text, i) ==
    IF i > Len(ToolNames) THEN <<>>
    ELSE (IF \/ Contains(text, ToolNames[i])
             \/ Contains(text, ReplaceAll(ToolNames[i], "_", " "))
          THEN IF ToolNames[i] = "execute_command" /\ extractCommand(text) # ""
               THEN << Intent("detected from text", ToolNames[i],
                              ArgMap(<< <<"command", StringValue(extractCommand(text))>> >>), 80) >>
               ELSE << Intent("detected from text", ToolNames[i], NoParameters, 60) >>
          ELSE <<>>)
         \o extractIntentsFromLower(text, i + 1)

extractIntentsFromText(text) == extractIntentsFromLower(ToLower(text), 1)

\* parseIntentResponse without the search for the brackets
parseIntentResponseWhole(response) ==
    LET decoded == Unmarshal(response)
    IN  IF ~decoded.ok THEN extractIntentsFromText(response) ELSE decoded.intents

parseIntentResponse(response) ==
    LET jsonStart == Index(response, "[")
        jsonEnd   == LastIndex(response, "]")
    IN  IF jsonStart = -1 \/ jsonEnd = -1 \/ jsonEnd <= jsonStart
        THEN <<>>
        ELSE LET decoded == Unmarshal(SubSeq(response, jsonStart + 1, jsonEnd + 1))
             IN  IF ~decoded.ok THEN extractIntentsFromText(response) ELSE decoded.intents

\* the position of the first word that satisfies Test, 0 when there is none
FirstWord(words, Test(_, _)) ==
    LET found == {i \in 1..Len(words) : Test(words, i)}
    IN  IF found = {} THEN 0 ELSE CHOOSE i \in found : \A j \in found : i <= j

QuoteCutset == {"\"", "'"}

HasDot(words, i) == Contains(words[i], ".")

\* words[i-1] == "called" (or "named") && words[i-2] == "file", i counted from 0
AfterFileCalled(words, i) ==
    /\ i > 2
    /\ words[i - 1] \in {"called", "named"}
    /\ words[i - 2] = "file"

IsContentWord(words, i) == words[i] \in {"with", "containing"}

DefaultContent == "Hello World!"

extractFileParams(userInput) ==
    LET words   == Fields(userInput)
        dotted  == FirstWord(words, HasDot)
        called  == FirstWord(words, AfterFileCalled)
        named   == Trim(words[called], QuoteCutset)
        marker  == FirstWord(words, IsContentWord)
        rest    == Trim(TrimSuffix(TrimSuffix(Join(SubSeq(words, marker + 1, Len(words)), " "),
                                              " in it"), " to it"), QuoteCutset)
        content == IF marker # 0 /\ marker < Len(words) /\ rest # ""
                   THEN rest ELSE DefaultContent
        name    == IF dotted # 0
                   THEN << <<"filename", StringValue(Trim(words[dotted], QuoteCutset))>> >>
                   ELSE IF called # 0
                   THEN << <<"filename",
                             StringValue(IF Contains(named, ".") THEN named
                                         ELSE named \o ".txt")>> >>
                   ELSE <<>>
    IN  ArgMap(name \o << <<"content", StringValue(content)>> >>)

AfterDirWord(words, i) ==
    i > 1 /\ words[i - 1] \in {"directory", "folder", "called", "named"}

extractDirParams(userInput) ==
    LET words == Fields(userInput)
        found == FirstWord(words, AfterDirWord)
    IN  IF found # 0
        THEN ArgMap(<< <<"dirname", StringValue(Trim(words[found], QuoteCutset))>> >>)
        ELSE NoParameters

fallbackPatternMatching(userInput) ==
    LET input  == ToLower(userInput)
        Has(w) == Contains(input, w)
    IN  (IF (Has("create") \/ Has("make")) /\ Has("file")
         THEN << Intent("create file", "create_file", extractFileParams(userInput), 70) >>
         ELSE <<>>)
        \o (IF (Has("create") \/ Has("make")) /\ (Has("directory") \/ Has("folder"))
            THEN << Intent("create directory", "create_directory",
                           extractDirParams(userInput), 70) >>
            ELSE <<>>)
        \o (IF (Has("list") \/ Has("show")) /\ (Has("file") \/ Has("directory"))
            THEN << Intent("list files", "list_files", NoParameters, 80) >>
            ELSE <<>>)
        \o (IF (Has("run") \/ Has("execute") \/ Has("command") \/ Has("bash"))
               /\ extractCommand(input) # ""
            THEN << Intent("execute command", "execute_command",
                           ArgMap(<< <<"command", StringValue(extractCommand(input))>> >>), 80) >>
            ELSE <<>>)
        \o (IF Has("working directory") \/ Has("current directory") \/ Has("where am i")
            THEN << Intent("get working directory", "get_working_directory", NoParameters, 90) >>
            ELSE <<>>)
        \o (IF Has("system") /\ Has("info")
            THEN << Intent("get system info", "get_system_info", NoParameters, 90) >>
            ELSE <<>>)
        \o (IF Has("process") \/ Has("task")
            THEN << Intent("list processes", "list_processes", NoParameters, 80) >>
            ELSE <<>>)

\* what detector.provider.GenerateResponse returned: a text or an error
Reply(text) == [failed |-> FALSE, text |-> text]

FailedReply == [failed |-> TRUE, text |-> ""]

Detected(intents, failed) == [intents |-> intents, err |-> failed]

\* DetectIntent that hands the error of the model call to its caller
DetectIntentPropagating(userInput, reply) ==
    IF reply.failed
    THEN Detected(<<>>, TRUE)
    ELSE IF parseIntentResponse(reply.text) = <<>>
    THEN Detected(fallbackPatternMatching(userInput), FALSE)
    ELSE Detected(parseIntentResponse(reply.text), FALSE)

\* DetectIntent, given the reply of the model to the detection prompt
DetectIntent(userInput, reply) ==
    IF reply.failed
    THEN Detected(fallbackPatternMatching(userInput), FALSE)
    ELSE IF parseIntentResponse(reply.text) = <<>>
    THEN Detected(fallbackPatternMatching(userInput), FALSE)
    ELSE Detected(parseIntentResponse(reply.text), FALSE)

(***************************************************************************)
(* Providers and the Tool Loop: GenerateResponseWithTools of the three     *)
(* providers of internal/ai/provider.go and of ai/provider.go.             *)
(***************************************************************************)
\* intent.Confidence > 0.8 (internal/ai) and intent.Confidence > 0.5 (ai)
ExecutionThreshold == 80

LegacyExecutionThreshold == 50

Provider(package, name) == [package |-> package, name |-> name]

Providers ==
    {Provider(p, n) : p \in {"internal/ai", "ai"}, n \in {"OpenAI", "Anthropic", "Ollama"}}

\* the threshold of package ai in every provider
ThresholdLegacy(provider) == LegacyExecutionThreshold

Threshold(provider) ==
    IF provider.package = "internal/ai" THEN ExecutionThreshold ELSE LegacyExecutionThreshold

\* the marks that open the lines of the summary (a check mark and a cross in the code)
CheckMark == "(ok)"

CrossMark == "(x)"

\* what an Ollama server may answer to the detection prompt, besides failing
OllamaTexts ==
    {"I can help with that.", "[]", "Please use list files for that.", "[{oops]"}
      \cup {"Detected: " \o MarshalTable[l] \o " Done." : l \in IntentLists \ {<<>>}}

\* and to any other prompt
OllamaAnswers == {"I can help with that.", "Here is what was done."}

\* p.GenerateResponse(ctx, prompt): the replies the provider may give
GenerateResponse(provider, prompt) ==
    IF provider.name = "Ollama"
    THEN {Reply(t) : t \in IF HasSuffix(prompt, "JSON response:")
                           THEN OllamaTexts ELSE OllamaAnswers}
           \cup {FailedReply}
    ELSE {Reply(provider.name \o " response to: " \o prompt)}

RECURSIVE SummaryLines(_)
SummaryLines(toolResults) ==
    IF toolResults = <<>> THEN ""
    ELSE (IF Head(toolResults).Success
          THEN CheckMark \o " " \o Head(toolResults).Content \o "\n"
          ELSE CrossMark \o " " \o Head(toolResults).Name \o " failed: "
                 \o Head(toolResults).Content \o "\n")
         \o SummaryLines(Tail(toolResults))

\* a summary without the lines of the results
SummaryBare(toolResults, closing) ==
    "I have successfully completed the following operations:\n" \o closing

Summary(toolResults, closing) ==
    "I have successfully completed the following operations:\n"
      \o SummaryLines(toolResults) \o closing

RECURSIVE OperationLines(_)
OperationLines(toolResults) ==
    IF toolResults = <<>> THEN ""
    ELSE "- " \o Head(toolResults).Name \o ": " \o Head(toolResults).Content \o "\n"
           \o OperationLines(Tail(toolResults))

EnhancedPrompt(toolResults, prompt) ==
    (IF toolResults # <<>>
     THEN "I have executed the following operations for you:\n"
            \o OperationLines(toolResults)
            \o "\nNow, please provide a helpful response about what was accomplished.\n"
     ELSE "")
      \o "User: " \o prompt

\* one GenerateResponseWithTools call: pc is idle, detect, loop (at the head of
\* the range loop, next is the index of the intent it looks at), tool (inside
\* ExecuteTool) or done; handed lists the intents given to ExecuteTool
IdleTurn ==
    [provider |-> Provider("", ""), prompt |-> "", pc |-> "idle",
     reply |-> Reply(""), intents |-> <<>>, detectErr |-> FALSE, next |-> 1,
     handed |-> <<>>, toolResults |-> <<>>, answer |-> Reply(""),
     response |-> "", err |-> FALSE,
     ctxDone |-> FALSE, cancelledAt |-> 0, cancelledIn |-> ""]

UserInputs ==
    { "hello",
      "create a file called notes.txt with Hello there",
      "run ls -la",
      "show files [all]",
      "where am i",
      "show system info and tasks" }

\* p.GenerateResponse(ctx, prompt) inside the turn: Ollama's HTTP request is
\* bound to ctx and fails once ctx is done; the simulated providers ignore ctx
Replies(prompt) ==
    IF turn.ctxDone /\ turn.provider.name = "Ollama" THEN {FailedReply}
    ELSE GenerateResponse(turn.provider, prompt)

\* a front end calls provider.GenerateResponseWithTools(ctx, prompt)
StartTurn ==
    /\ turn.pc = "idle"
    /\ \E provider \in Providers, prompt \in UserInputs :
         turn' = [IdleTurn EXCEPT !.provider = provider, !.prompt = prompt, !.pc = "detect"]
    /\ UNCHANGED <<policy, shell, fs, call, parse, app, tui, stream>>

\* intents, err := detector.DetectIntent(ctx, prompt), and the return on err
Detect ==
    /\ turn.pc = "detect"
    /\ \E reply \in Replies(createIntentDetectionPrompt(turn.prompt)) :
         LET d == DetectIntent(turn.prompt, reply)
         IN  IF d.err
             THEN \E answer \in Replies(turn.prompt) :
                    turn' = [turn EXCEPT !.pc = "done", !.reply = reply, !.detectErr = TRUE,
                                         !.response = answer.text, !.err = answer.failed]
             ELSE turn' = [turn EXCEPT !.pc = "loop", !.reply = reply, !.intents = d.intents]
    /\ UNCHANGED <<policy, shell, fs, call, parse, app, tui, stream>>

\* the loop body on an intent at or below the threshold
SkipIntent ==
    /\ turn.pc = "loop"
    /\ turn.next <= Len(turn.intents)
    /\ ~(turn.intents[turn.next].Confidence > Threshold(turn.provider))
    /\ turn' = [turn EXCEPT !.next = @ + 1]
    /\ UNCHANGED <<policy, shell, fs, call, parse, app, tui, stream>>

\* result := ExecuteTool(intent.Tool, intent.Parameters): the call
HandIntent ==
    /\ turn.pc = "loop"
    /\ turn.next <= Len(turn.intents)
    /\ turn.intents[turn.next].Confidence > Threshold(turn.provider)
    /\ call' = StartCall(turn.intents[turn.next].Tool, turn.intents[turn.next].Parameters)
    /\ turn' = [turn EXCEPT !.pc = "tool", !.handed = Append(@, turn.intents[turn.next])]
    /\ UNCHANGED <<policy, shell, fs, parse, app, tui, stream>>

\* CollectResult that puts the newest result first
CollectResultFirst ==
    /\ turn.pc = "tool"
    /\ call.pc = "done"
    /\ turn' = [turn EXCEPT !.pc = "loop", !.next = @ + 1,
                            !.toolResults = <<call.result>> \o @]
    /\ call' = IdleCall
    /\ UNCHANGED <<policy, shell, fs, parse, app, tui, stream>>

\* toolResults = append(toolResults, result)
CollectResult ==
    /\ turn.pc = "tool"
    /\ call.pc = "done"
    /\ turn' = [turn EXCEPT !.pc = "loop", !.next = @ + 1,
                            !.toolResults = Append(@, call.result)]
    /\ call' = IdleCall
    /\ UNCHANGED <<policy, shell, fs, parse, app, tui, stream>>

\* the end of OpenAIProvider's and AnthropicProvider's GenerateResponseWithTools
RespondSimulated ==
    /\ turn.pc = "loop"
    /\ turn.next > Len(turn.intents)
    /\ turn.provider.name # "Ollama"
    /\ turn' = [turn EXCEPT
                  !.pc = "done",
                  !.response =
                     IF turn.toolResults # <<>>
                     THEN Summary(turn.toolResults,
                                  "\nAll requested operations have been executed.")
                     ELSE turn.provider.name \o " response to: " \o turn.prompt]
    /\ UNCHANGED <<policy, shell, fs, call, parse, app, tui, stream>>

\* the end of OllamaProvider's: the model call on the enhanced prompt, and the
\* summary when that call fails
RespondOllama ==
    /\ turn.pc = "loop"
    /\ turn.next > Len(turn.intents)
    /\ turn.provider.name = "Ollama"
    /\ \E answer \in Replies(EnhancedPrompt(turn.toolResults, turn.prompt)) :
         turn' = [turn EXCEPT
                    !.pc = "done",
                    !.answer = answer,
                    !.response =
                       IF ~answer.failed THEN answer.text
                       ELSE IF turn.toolResults # <<>>
                       THEN Summary(turn.toolResults,
                                    "\nAll file operations have been executed successfully.")
                       ELSE "",
                    !.err = answer.failed /\ turn.toolResults = <<>>]
    /\ UNCHANGED <<policy, shell, fs, call, parse, app, tui, stream>>

\* the front end cancels ctx, or the deadline of ctx passes, during the call.
\* The turn remembers which intent it was at and where the sandbox was.
CancelTurn ==
    /\ turn.pc \in {"detect", "loop", "tool"}
    /\ ~turn.ctxDone
    /\ turn' = [turn EXCEPT !.ctxDone = TRUE, !.cancelledAt = turn.next,
                            !.cancelledIn = shell.pc]
    /\ UNCHANGED <<policy, shell, fs, call, parse, app, tui, stream>>

\* the front end has the response
FinishTurn ==
    /\ turn.pc = "done"
    /\ turn' = IdleTurn
    /\ UNCHANGED <<policy, shell, fs, call, parse, app, tui, stream>>

GenerateResponseWithTools ==
    \/ Detect
    \/ SkipIntent
    \/ HandIntent
    \/ CollectResult
    \/ RespondSimulated
    \/ RespondOllama

(***************************************************************************)
(* parseIntentResponse on a JSON array alone and inside prose.             *)
(***************************************************************************)
Prefixes == {"", "Here are the intents: ", "Intents [2 found]: ", "1] "}

Suffixes == {"", " Done.", " (see [1])", " [more"}

IdleParse ==
    [prefix |-> "", list |-> <<>>, suffix |-> "", pc |-> "idle",
     embedded |-> <<>>, bare |-> <<>>]

ParseReply ==
    /\ parse.pc = "input"
    /\ parse' = [parse EXCEPT
                   !.pc = "parsed",
                   !.embedded = parseIntentResponse(parse.prefix \o Marshal(parse.list)
                                                      \o parse.suffix),
                   !.bare = parseIntentResponse(Marshal(parse.list))]
    /\ UNCHANGED <<policy, shell, fs, call, turn, app, tui, stream>>

(***************************************************************************)
(* Front ends.  The graphical App (package gui) puts submitted messages    *)
(* on inputQueue; the goroutine of startInputProcessor takes them off and  *)
(* calls processMessage, which starts one goroutine per message.  The      *)
(* terminal front end (SimpleTUI.Run) reads lines in its main loop and     *)
(* starts one goroutine per conversation.  A goroutine that runs a slash   *)
(* command is no turn; every other one is inside GenerateResponseWithTools *)
(* or GenerateResponse until it ends.                                      *)
(***************************************************************************)
QueueCapacity == 2

MaxMessages == 3

Messages == {"  ", "hello", " hi ", "/help", "exit"}

QueueFullStatus == "Message queue full, please wait..."

IdleApp ==
    [inputQueue |-> <<>>, processingLock |-> FALSE, processor |-> "receive",
     text |-> "", running |-> <<>>, status |-> "", submitted |-> 0,
     skipped |-> 0]

IdleTui ==
    [aiBusy |-> FALSE, unseen |-> FALSE, running |-> <<>>, queued |-> <<>>,
     lines |-> 0, exited |-> FALSE]

Without(seq, i) == SubSeq(seq, 1, i - 1) \o SubSeq(seq, i + 1, Len(seq))

IsSlashCommand(text) == HasPrefix(text, "/")

AppTurnsInFlight == Cardinality({i \in DOMAIN app.running : ~IsSlashCommand(app.running[i])})

TuiTurnsInFlight == Cardinality({i \in DOMAIN tui.running : tui.running[i].pc = "conversation"})

queueMessage ==
    /\ app.submitted < MaxMessages
    /\ \E input \in Messages :
         LET text == TrimSpace(input) IN
         app' = [app EXCEPT
                   !.submitted = @ + 1,
                   !.inputQueue = IF text # "" /\ Len(@) < QueueCapacity
                                  THEN Append(@, text) ELSE @,
                   !.status = IF text # "" /\ Len(app.inputQueue) >= QueueCapacity
                              THEN QueueFullStatus ELSE @]
    /\ UNCHANGED <<policy, shell, fs, call, turn, parse, tui, stream>>

(* The processor takes the next message and enters processMessage: a set   *)
(* lock makes it return at once, otherwise the lock is taken.              *)
processMessageEnter ==
    /\ app.processor = "receive"
    /\ app.inputQueue # <<>>
    /\ app' = IF app.processingLock
              THEN [app EXCEPT !.inputQueue = Tail(@), !.skipped = @ + 1]
              ELSE [app EXCEPT !.inputQueue = Tail(@),
                               !.text = Head(app.inputQueue),
                               !.processingLock = TRUE,
                               !.processor = "processing"]
    /\ UNCHANGED <<policy, shell, fs, call, turn, parse, tui, stream>>

(* processMessage starts the goroutine of the message and returns; the     *)
(* deferred function releases the lock on that return.                     *)
processMessageReturn ==
    /\ app.processor = "processing"
    /\ app' = [app EXCEPT !.running = Append(@, app.text),
                          !.processingLock = FALSE,
                          !.processor = "receive"]
    /\ UNCHANGED <<policy, shell, fs, call, turn, parse, tui, stream>>

AppGoroutineEnd ==
    /\ \E i \in DOMAIN app.running :
         app' = [app EXCEPT !.running = Without(@, i),
                            !.status = "Ready - Type your message below"]
    /\ UNCHANGED <<policy, shell, fs, call, turn, parse, tui, stream>>

ExitCommands == {"exit", "quit", "/quit", "/exit"}

(* aiBusy is written by the conversation goroutine and read by the main    *)
(* loop without synchronisation: until the main loop has seen the          *)
(* goroutine's FALSE it may still read TRUE.                               *)
BusyReads == IF tui.unseen THEN {tui.aiBusy, TRUE} ELSE {tui.aiBusy}

(* One iteration of the main loop on a line of input. *)
TuiInput ==
    /\ ~tui.exited
    /\ tui.lines < MaxMessages
    /\ \E line \in Messages, busy \in BusyReads :
         LET input == TrimSpace(line)
             read == [tui EXCEPT !.lines = @ + 1,
                                 !.unseen = IF busy THEN @ ELSE FALSE]
         IN  tui' = IF input = "" THEN read
                    ELSE IF input \in ExitCommands THEN [read EXCEPT !.exited = TRUE]
                    ELSE IF busy THEN [read EXCEPT !.queued = Append(@, input)]
                    ELSE IF IsSlashCommand(input) THEN read
                    ELSE [read EXCEPT
                            !.aiBusy = TRUE,
                            !.unseen = FALSE,
                            !.running = Append(@, [prompt |-> input,
                                                   pc |-> "conversation"])]
    /\ UNCHANGED <<policy, shell, fs, call, turn, parse, app, stream>>

TuiInterrupt ==
    /\ ~tui.exited
    /\ tui' = [tui EXCEPT !.exited = TRUE]
    /\ UNCHANGED <<policy, shell, fs, call, turn, parse, app, stream>>

TuiConversationReturn ==
    /\ ~tui.exited
    /\ \E i \in DOMAIN tui.running :
         /\ tui.running[i].pc = "conversation"
         /\ tui' = [tui EXCEPT !.running[i].pc = "clear"]
    /\ UNCHANGED <<policy, shell, fs, call, turn, parse, app, stream>>

TuiClearBusy ==
    /\ ~tui.exited
    /\ \E i \in DOMAIN tui.running :
         /\ tui.running[i].pc = "clear"
         /\ tui' = [tui EXCEPT !.running = Without(@, i),
                               !.aiBusy = FALSE,
                               !.unseen = TRUE]
    /\ UNCHANGED <<policy, shell, fs, call, turn, parse, app, stream>>

(***************************************************************************)
(* Streaming: GenerateStreamingResponse of the three providers of          *)
(* internal/ai/provider.go.  The caller's context is cancelled, or its     *)
(* deadline passes, at any moment of the call.  The simulated providers    *)
(* give the words of a fixed answer; Ollama reads the lines of the         *)
(* response body, each an empty line, a line that is no JSON object, or a  *)
(* decoded OllamaResponse.                                                 *)
(***************************************************************************)
\* strings.Split(s, sep) for a non-empty separator
RECURSIVE Split(_, _)
Split(s, sep) ==
    IF Index(s, sep) < 0 THEN <<s>>
    ELSE <<SubSeq(s, 1, Index(s, sep))>>
           \o Split(SubSeq(s, Index(s, sep) + Len(sep) + 1, Len(s)), sep)

ContextErrors == {"context canceled", "context deadline exceeded"}

StreamPrompts == {"", "hi", "list  files"}

StreamProviders == {"OpenAI", "Anthropic", "Ollama"}

StreamingAnswer(name, prompt) == name \o " streaming response to: " \o prompt

BlankLine == [raw |-> "", response |-> "", done |-> FALSE, error |-> ""]

MalformedLine == [raw |-> "text", response |-> "", done |-> FALSE, error |-> ""]

ChunkLine(response) == [raw |-> "json", response |-> response, done |-> FALSE, error |-> ""]

DoneLine(response) == [raw |-> "json", response |-> response, done |-> TRUE, error |-> ""]

ErrorLine(error) == [raw |-> "json", response |-> "", done |-> FALSE, error |-> error]

OllamaBodies ==
    {<<ChunkLine("Hel"), BlankLine, ChunkLine("lo"), ChunkLine(""), DoneLine("")>>,
     <<ChunkLine("Hi"), MalformedLine, ErrorLine("model not found")>>,
     <<ChunkLine("Hi"), ChunkLine(" there"), DoneLine("!")>>,
     <<ChunkLine("Hi"), ChunkLine(" there")>>,
     <<ChunkLine("Hi"), DoneLine(""), ChunkLine("late")>>}

\* how the connection behaves: the request fails, the server answers with an
\* error status, or the body is served and then ends or breaks
Connections == {"refused", "status", "eof", "reset"}

IdleStream ==
    [name |-> "", prompt |-> "", pc |-> "idle", body |-> <<>>, pending |-> <<>>,
     connection |-> "", text |-> "", delivered |-> <<>>,
     cancelled |-> FALSE, ctxErr |-> "", stop |-> "", err |-> ""]

StreamReturn(s, text, stop, err) ==
    [s EXCEPT !.pc = "returned", !.text = text, !.stop = stop, !.err = err]

\* return fullResponse.String(), ctx.Err()
StreamCancelledEmpty(s) == StreamReturn(s, "", "cancel", s.ctxErr)

StreamCancelled(s) == StreamReturn(s, s.text, "cancel", s.ctxErr)

\* callback(chunk) without the write to fullResponse
DeliverUnwritten(s, chunk) == [s EXCEPT !.delivered = Append(@, chunk)]

\* fullResponse.WriteString(chunk); callback(chunk)
Deliver(s, chunk) == [s EXCEPT !.text = @ \o chunk, !.delivered = Append(@, chunk)]

StartStream ==
    /\ stream.pc = "idle"
    /\ \E name \in StreamProviders, prompt \in StreamPrompts :
         IF name = "Ollama"
         THEN \E body \in OllamaBodies, connection \in Connections :
                stream' = [IdleStream EXCEPT !.name = name, !.prompt = prompt,
                                             !.pc = "request", !.body = body,
                                             !.pending = body,
                                             !.connection = connection]
         ELSE stream' = [IdleStream EXCEPT
                           !.name = name, !.prompt = prompt, !.pc = "emit",
                           !.pending = Split(StreamingAnswer(name, prompt), " ")]
    /\ UNCHANGED <<policy, shell, fs, call, turn, parse, app, tui>>

(* The context is cancelled or its deadline passes.  The transport then    *)
(* fails every later read of an Ollama body: the lines the scanner has     *)
(* already buffered stay readable, the rest of the body is lost.           *)
CancelStream ==
    /\ stream.pc \in {"request", "emit", "select", "scan"}
    /\ ~stream.cancelled
    /\ \E e \in ContextErrors, kept \in 0..Len(stream.pending) :
         /\ stream.name # "Ollama" => kept = Len(stream.pending)
         /\ stream' = [stream EXCEPT
                         !.cancelled = TRUE,
                         !.ctxErr = e,
                         !.pending = SubSeq(@, 1, kept)]
    /\ UNCHANGED <<policy, shell, fs, call, turn, parse, app, tui>>

(* One word of a simulated provider: written and handed to the callback;  *)
(* the select comes next.                                                  *)
StreamWord ==
    /\ stream.pc = "emit"
    /\ stream.pending # <<>>
    /\ LET word == IF stream.delivered = <<>> THEN Head(stream.pending)
                   ELSE " " \o Head(stream.pending)
       IN  stream' = [Deliver(stream, word) EXCEPT !.pending = Tail(@), !.pc = "select"]
    /\ UNCHANGED <<policy, shell, fs, call, turn, parse, app, tui>>

(* The select takes ctx.Done when the context is done, before the select  *)
(* or while it waits.                                                      *)
StreamSelectDone ==
    /\ stream.pc = "select"
    /\ stream.cancelled
    /\ stream' = StreamCancelled(stream)
    /\ UNCHANGED <<policy, shell, fs, call, turn, parse, app, tui>>

(* The 50 ms timer fires first: the loop goes on to the next word, or ends  *)
(* after the last one and the call returns the whole answer.               *)
StreamSelectTimer ==
    /\ stream.pc = "select"
    /\ ~stream.cancelled
    /\ stream' = IF stream.pending = <<>>
                 THEN StreamReturn(stream, stream.text, "complete", "")
                 ELSE [stream EXCEPT !.pc = "emit"]
    /\ UNCHANGED <<policy, shell, fs, call, turn, parse, app, tui>>

(* Ollama: client.Do and the status check. *)
StreamRequest ==
    /\ stream.pc = "request"
    /\ stream' =
         IF stream.cancelled
         THEN StreamReturn(stream, "", "cancel", "failed to send request: " \o stream.ctxErr)
         ELSE IF stream.connection = "refused"
         THEN StreamReturn(stream, "", "request", "failed to send request: connection refused")
         ELSE IF stream.connection = "status"
         THEN StreamReturn(stream, "", "status", "API request failed with status 500: ")
         ELSE [stream EXCEPT !.pc = "scan"]
    /\ UNCHANGED <<policy, shell, fs, call, turn, parse, app, tui>>

(* Ollama: one scanner.Scan with the loop body, or the end of the loop. *)
StreamScan ==
    /\ stream.pc = "scan"
    /\ stream' =
         IF stream.pending = <<>>
         THEN IF stream.cancelled
              THEN StreamReturn(stream, stream.text, "cancel",
                                "error reading stream: " \o stream.ctxErr)
              ELSE IF stream.connection = "reset"
              THEN StreamReturn(stream, stream.text, "reset",
                                "error reading stream: connection reset by peer")
              ELSE StreamReturn(stream, stream.text, "eof", "")
         ELSE LET line == Head(stream.pending)
                  rest == [stream EXCEPT !.pending = Tail(@)]
                  got  == IF line.response # "" THEN Deliver(rest, line.response) ELSE rest
              IN  IF line.raw # "json" THEN rest
                  ELSE IF line.error # ""
                  THEN StreamReturn(rest, rest.text, "error", "ollama error: " \o line.error)
                  ELSE IF line.done THEN StreamReturn(got, got.text, "done", "")
                  ELSE IF stream.cancelled THEN StreamCancelled(got)
                  ELSE got
    /\ UNCHANGED <<policy, shell, fs, call, turn, parse, app, tui>>

GenerateStreamingResponse ==
    \/ StreamWord
    \/ StreamSelectDone
    \/ StreamSelectTimer
    \/ StreamRequest
    \/ StreamScan

InitPolicy ==
    /\ policy \in [command : CommandInputs, verdict : {"none"}]
    /\ shell = IdleShell
    /\ fs = InitialFS
    /\ call = IdleCall
    /\ turn = IdleTurn
    /\ parse = IdleParse
    /\ app = IdleApp
    /\ tui = IdleTui
    /\ stream = IdleStream

NextPolicy == EvaluatePolicy

SpecPolicy == InitPolicy /\ [][NextPolicy]_vars

InitShell ==
    /\ shell \in {CallShell(c, t) : c \in ShellCommands, t \in Timeouts}
    /\ policy = IdlePolicy
    /\ fs = InitialFS
    /\ call = IdleCall
    /\ turn = IdleTurn
    /\ parse = IdleParse
    /\ app = IdleApp
    /\ tui = IdleTui
    /\ stream = IdleStream

NextShell == ShellStep

SpecShell == InitShell /\ [][NextShell]_vars

InitTools ==
    /\ policy = IdlePolicy
    /\ shell = IdleShell
    /\ fs = InitialFS
    /\ call = IdleCall
    /\ turn = IdleTurn
    /\ parse = IdleParse
    /\ app = IdleApp
    /\ tui = IdleTui
    /\ stream = IdleStream

NextTools ==
    \/ CallExecuteTool
    \/ TakeToolResult
    \/ ExecuteTool
    \/ ShellStep

SpecTools == InitTools /\ [][NextTools]_vars

InitParse ==
    /\ parse \in {[IdleParse EXCEPT !.prefix = p, !.list = l, !.suffix = q, !.pc = "input"] :
                    p \in Prefixes, l \in IntentLists, q \in Suffixes}
    /\ policy = IdlePolicy
    /\ shell = IdleShell
    /\ fs = InitialFS
    /\ call = IdleCall
    /\ turn = IdleTurn
    /\ app = IdleApp
    /\ tui = IdleTui
    /\ stream = IdleStream

NextParse == ParseReply

SpecParse == InitParse /\ [][NextParse]_vars

InitSession ==
    /\ policy = IdlePolicy
    /\ shell = IdleShell
    /\ fs = InitialFS
    /\ call = IdleCall
    /\ turn = IdleTurn
    /\ parse = IdleParse
    /\ app = IdleApp
    /\ tui = IdleTui
    /\ stream = IdleStream

NextSession ==
    \/ queueMessage
    \/ processMessageEnter
    \/ processMessageReturn
    \/ AppGoroutineEnd
    \/ TuiInput
    \/ TuiInterrupt
    \/ TuiConversationReturn
    \/ TuiClearBusy

SpecSession == InitSession /\ [][NextSession]_vars

InitStream ==
    /\ policy = IdlePolicy
    /\ shell = IdleShell
    /\ fs = InitialFS
    /\ call = IdleCall
    /\ turn = IdleTurn
    /\ parse = IdleParse
    /\ app = IdleApp
    /\ tui = IdleTui
    /\ stream = IdleStream

NextStream ==
    \/ StartStream
    \/ CancelStream
    \/ GenerateStreamingResponse

SpecStream == InitStream /\ [][NextStream]_vars

(* The terminal front end alone, with the scheduling Go gives it: a        *)
(* conversation goroutine that can take its next step is run in the end.   *)
(* Lines of input and the interrupt come from the user, at no set time.    *)
NextTerminal ==
    \/ TuiInput
    \/ TuiInterrupt
    \/ TuiConversationReturn
    \/ TuiClearBusy

SpecTerminal ==
    /\ InitSession
    /\ [][NextTerminal]_vars
    /\ WF_vars(TuiConversationReturn)
    /\ WF_vars(TuiClearBusy)

(* The sandbox with the scheduling Go gives it: a goroutine that can take  *)
(* its next step is run in the end, and a timer that was set fires.  The   *)
(* child gets no such promise: a command may run for ever.                 *)
LiveCommands == {"", "ls", "ls -la", "echo hi", "sudo ls", "cat a.txt | wc"}

InitShellLive ==
    /\ shell \in {CallShell(c, t) : c \in LiveCommands, t \in Timeouts}
    /\ policy = IdlePolicy
    /\ fs = InitialFS
    /\ call = IdleCall
    /\ turn = IdleTurn
    /\ parse = IdleParse
    /\ app = IdleApp
    /\ tui = IdleTui
    /\ stream = IdleStream

\* Weak fairness of the calling goroutine's first step, WF_shell(ShellCall),
\* written out: the step is enabled exactly when shell.pc = "call" and always
\* leaves that position.
ShellCallProceeds == []<>(shell.pc # "call") \/ []<><<ShellCall>>_shell

SpecShellLive ==
    /\ InitShellLive
    /\ [][NextShell]_vars
    /\ ShellCallProceeds
    /\ WF_shell(ShellTimeout)
    /\ WF_shell(WorkerStart)
    /\ WF_shell(ChildKilled)
    /\ WF_shell(WorkerSend)

Init ==
    /\ policy = IdlePolicy
    /\ shell = IdleShell
    /\ fs = InitialFS
    /\ call = IdleCall
    /\ turn = IdleTurn
    /\ parse = IdleParse
    /\ app = IdleApp
    /\ tui = IdleTui
    /\ stream = IdleStream

Next ==
    \/ StartTurn
    \/ CancelTurn
    \/ GenerateResponseWithTools
    \/ ExecuteTool
    \/ ShellStep
    \/ FinishTurn

Spec == Init /\ [][Next]_vars

(***************************************************************************)
(* Properties of the Command Safety Policy, checked under SpecPolicy.      *)
(***************************************************************************)
\* the command with its letters lower-cased and every run of blanks made one blank
CanonicalCommand(command) == Join(Fields(ToLower(command)), " ")

\* the words of a deny-list entry occur as consecutive words of the command
InvokesDenyListed(command) ==
    LET words == Fields(ToLower(command))
    IN  \E i \in 1..Len(dangerousPatterns) :
          LET pat == Fields(dangerousPatterns[i])
          IN  \E k \in 0..(Len(words) - Len(pat)) :
                SubSeq(words, k + 1, k + Len(pat)) = pat

ContainsMetacharacter(command) ==
    \E i \in 1..Len(dangerousChars) : Contains(command, dangerousChars[i])

PolicyDecided == policy.verdict # "none"

\* C2: a command that invokes a deny-listed operation or contains a shell
\* metacharacter is rejected, whatever its letter case and its whitespace.
C2_DenyListedAlwaysRejected ==
    (PolicyDecided /\ (InvokesDenyListed(policy.command) \/ ContainsMetacharacter(policy.command)))
        => policy.verdict = "denied"

\* the command words of the allow-list entries: "ls", "git", "python", ...
SafeCommandWords == {Fields(safeCommands[i])[1] : i \in 1..Len(safeCommands)}

HelpOrVersionFlags == {"--version", "-version", "--help", "-h"}

HasHelpOrVersionFlag(command) ==
    LET parts == Fields(ToLower(command))
    IN  \E i \in 2..Len(parts) : parts[i] \in HelpOrVersionFlags

\* C3: a command is accepted only if its first word is the command word of an
\* allow-list entry or one of its arguments is a version or help flag.
C3_AcceptedOnlyIfAllowListed ==
    policy.verdict = "safe" =>
        \/ Fields(ToLower(policy.command))[1] \in SafeCommandWords
        \/ HasHelpOrVersionFlag(policy.command)

StartsWithAllowListed(command) ==
    \E i \in 1..Len(safeCommands) :
        \/ CanonicalCommand(command) = safeCommands[i]
        \/ HasPrefix(CanonicalCommand(command), safeCommands[i] \o " ")

\* C4: a command that starts with an allow-listed command and contains no
\* shell metacharacter is accepted, whatever its other arguments are.
C4_AllowListedAlwaysAccepted ==
    (/\ PolicyDecided
     /\ StartsWithAllowListed(policy.command)
     /\ ~ContainsMetacharacter(policy.command))
        => policy.verdict = "safe"

\* C5: a command the policy denies (the empty and the blank command included)
\* never gets a goroutine or a child process, neither before nor after the
\* call returns, and the call returns the fixed rejection message.
C5_DeniedCommandNeverSpawns ==
    ~isCommandSafe(shell.command) =>
        /\ shell.spawned = 0
        /\ shell.process = "nil"
        /\ shell.worker = "none"
        /\ shell.pc = "returned" => shell.result = RejectionMessage

C5_Witness ==
    /\ shell.pc = "returned"
    /\ shell.verdict = "denied"
    /\ TrimSpace(shell.command) = ""
    /\ shell.command # ""

(***************************************************************************)
(* Properties of the Tool Executor, checked under SpecTools.               *)
(***************************************************************************)
\* C6: a ToolResult has Success = TRUE only if the operation under the tool
\* succeeded: a failed FileOperation, a rejected, timed-out or failed command
\* give Success = FALSE.
C6_SuccessOnlyIfOperationSucceeded ==
    (call.pc = "done" /\ call.result.Success) => call.opOK

\* C7: a tool whose operation succeeded yields Success = TRUE, whatever the
\* text of its result begins with.
C7_SuccessIndependentOfText ==
    (call.pc = "done" /\ call.opOK) => call.result.Success

\* the name is not registered, or a required parameter is absent or not a string
BadCall(c) ==
    \/ ~IsRegistered(c.name)
    \/ \E k \in RequiredParams(c.name) : ~IsString(c.args, k)

\* C8: ExecuteTool on an unregistered name, or on a registered tool with a
\* required parameter absent or not a string, returns in one step a ToolResult
\* with Success = FALSE, the requested Name and a message naming the problem
\* (the unknown name included), and leaves the file system and the sandbox
\* untouched and starts no helper process.
C8_BadCallFailsWithoutSideEffect ==
    [][(call.pc = "start" /\ BadCall(call)) =>
         /\ call'.pc = "done"
         /\ call'.result.Success = FALSE
         /\ call'.result.Name = call.name
         /\ IF IsRegistered(call.name)
            THEN /\ HasPrefix(call'.result.Content, "Error: ")
                 /\ HasSuffix(call'.result.Content, "required")
                 /\ \E k \in RequiredParams(call.name) : Contains(call'.result.Content, k)
            ELSE call'.result.Content = "Unknown tool: " \o call.name
         /\ call'.helpers = 0
         /\ fs' = fs
         /\ shell' = shell]_vars

C8_Witness ==
    /\ call.pc = "done"
    /\ call.name = "update_file"
    /\ "filename" \in DOMAIN call.args
    /\ ~IsString(call.args, "filename")
    /\ IsString(call.args, "content")
    /\ call.result.Success = FALSE
    /\ IsFile(fs, "/w/notes.txt")

(***************************************************************************)
(* Properties of the Tool Loop and of the Intent Detector, checked under   *)
(* Spec and SpecParse.                                                     *)
(***************************************************************************)
\* C1: in every provider, only intents of confidence strictly above 0.8 are
\* handed to ExecuteTool, and every ToolResult of the turn belongs to an
\* intent that was handed over.
C1_OnlyAboveThresholdExecuted ==
    /\ \A i \in 1..Len(turn.handed) : turn.handed[i].Confidence > ExecutionThreshold
    /\ Len(turn.toolResults) <= Len(turn.handed)

\* C9: DetectIntent returns no error; when the model call failed, and when the
\* reply gave no intents, it returns the keyword fallback of the user text.
C9_DetectNeverFails ==
    [][(turn.pc = "detect" /\ turn'.pc # "detect") =>
         /\ ~turn'.detectErr
         /\ turn'.pc = "loop"
         /\ turn'.reply.failed => turn'.intents = fallbackPatternMatching(turn.prompt)
         /\ (~turn'.reply.failed /\ parseIntentResponse(turn'.reply.text) = <<>>)
               => turn'.intents = fallbackPatternMatching(turn.prompt)]_vars

C9_Witness ==
    /\ turn.pc = "loop"
    /\ turn.reply.failed
    /\ turn.intents # <<>>
    /\ turn.intents = fallbackPatternMatching(turn.prompt)

\* C10 as stated: for every array and every prose before and after it, the
\* reply with the prose parses to the intents of the array alone.
C10_EmbeddedArrayParsesAsBare ==
    parse.pc = "parsed" => parse.embedded = parse.bare

\* C10 amended: the same, for prose before the array without "[" and prose
\* after it without "]".
C10_EmbeddedArrayParsesAsBareNoBrackets ==
    (/\ parse.pc = "parsed"
     /\ ~Contains(parse.prefix, "[")
     /\ ~Contains(parse.suffix, "]"))
        => /\ parse.embedded = parse.bare
           /\ parse.bare = parse.list

C10_Witness ==
    /\ parse.pc = "parsed"
    /\ parse.prefix # ""
    /\ parse.suffix # ""
    /\ Contains(parse.prefix, "]")
    /\ Contains(parse.suffix, "[")
    /\ Len(parse.list) = 2
    /\ parse.embedded = parse.list

(***************************************************************************)
(* Properties of the Command Sandbox, checked under SpecShell.             *)
(***************************************************************************)
\* the command output a result may carry: all of it up to the limit, the
\* first OutputLimit characters and the marker beyond
CappedOutput(output) ==
    IF Len(output) <= OutputLimit
    THEN output
    ELSE SubSeq(output, 1, OutputLimit) \o TruncationMarker

\* C11: whatever the outcome, the returned string carries the command output
\* capped at 10,000 characters (with the truncation marker when cut), and an
\* output of at most 10,000 characters unmodified.
C11_EveryResultCapsOutput ==
    shell.pc = "returned" =>
        CASE shell.outcome = "ok" -> shell.result = CappedOutput(shell.output)
          [] shell.outcome = "failed" ->
               shell.result = "Command failed: " \o shell.err \o "\nOutput: "
                                \o CappedOutput(shell.output)
          [] OTHER -> Len(shell.result) <= OutputLimit

\* the timeout asked of the execute_command tool, in tenths of a second; 0 is unset
RequestedTenths(args) == IF IsNumber(args, "timeout") THEN args["timeout"].val ELSE 0

\* C12: the watchdog bound is above 0 and at most 30 s; a request that is
\* unset, not positive or above 30 s gives 30 s, and a request inside
\* (0, 30 s], made in seconds through the execute_command tool, is the bound.
C12_BoundIsClampedRequest ==
    (call.pc = "shell" /\ shell.verdict = "safe") =>
        LET requested == RequestedTenths(call.args)
        IN  /\ shell.bound > 0
            /\ shell.bound <= MaxTimeout
            /\ (requested <= 0 \/ requested > MaxTimeout * 10) => shell.bound = MaxTimeout
            /\ (requested > 0 /\ requested <= MaxTimeout * 10) => shell.bound * 10 = requested

\* C13: when the watchdog fires, the call returns the timeout message with the
\* clamped bound, and at its return the child has been terminated: no child
\* runs and none is started later.
C13_TimeoutKillsChild ==
    (shell.pc = "returned" /\ shell.outcome = "timeout") =>
        /\ shell.result = "Command timed out after " \o ToString(shell.bound) \o "s"
        /\ shell.bound = ClampTimeout(shell.timeout)
        /\ shell.process # "running"
        /\ shell.worker # "started"

(***************************************************************************)
(* Properties of one GenerateResponseWithTools call, checked under Spec.   *)
(***************************************************************************)
\* the intents of the turn above the threshold of its provider, in detector order
AboveThreshold(t) ==
    SelectSeq(t.intents, LAMBDA intent : intent.Confidence > Threshold(t.provider))

LinesWith(text, mark) ==
    Cardinality({i \in Occurrences(text, mark) : i = 0 \/ CharAt(text, i) = "\n"})

Successes(toolResults) == SelectSeq(toolResults, LAMBDA r : r.Success)

Failures(toolResults) == SelectSeq(toolResults, LAMBDA r : ~r.Success)

CreateRequest == "create a file called notes.txt with Hello there"

RunRequest == "run ls -la"

\* the turn has a ToolResult of the tool; Holds is what a successful one implies
Carried(tool, holds) ==
    \E i \in 1..Len(turn.toolResults) :
        /\ turn.toolResults[i].Name = tool
        /\ turn.handed[i].Tool = tool
        /\ turn.toolResults[i].Success => holds

\* C16: a finished turn whose intents are those of the keyword fallback has
\* carried the request out: for the create request a create_file result, with
\* notes.txt holding "Hello there" when it succeeded, and for the run request
\* an execute_command result for the command "ls -la".
C16_FallbackRequestCarriedOut ==
    (turn.pc = "done" /\ turn.intents = fallbackPatternMatching(turn.prompt)) =>
        /\ turn.prompt = CreateRequest =>
             Carried("create_file",
                     /\ IsFile(fs, "/w/notes.txt")
                     /\ fs.files["/w/notes.txt"] = "Hello there")
        /\ turn.prompt = RunRequest =>
             Carried("execute_command",
                     \E i \in 1..Len(turn.handed) :
                        turn.handed[i].Parameters = ArgMap(<< <<"command", StringValue("ls -la")>> >>))

(***************************************************************************)
(* Properties of the front ends, checked under SpecSession.                *)
(***************************************************************************)

(* C17: within one session at most one turn is in flight at any time: a    *)
(* message submitted or taken off the queue while a turn is still running  *)
(* never starts a second turn beside it.                                   *)
C17_AtMostOneTurnInFlight ==
    /\ AppTurnsInFlight <= 1
    /\ TuiTurnsInFlight <= 1

(* The terminal front end alone keeps to one conversation at a time. *)
TuiAtMostOneTurnInFlight == TuiTurnsInFlight <= 1

(***************************************************************************)
(* Properties of streaming, checked under SpecStream.                      *)
(***************************************************************************)
RECURSIVE Concat(_)
Concat(chunks) == IF chunks = <<>> THEN "" ELSE Head(chunks) \o Concat(Tail(chunks))

C18_WitnessOllama ==
    /\ stream.pc = "returned"
    /\ stream.name = "Ollama"
    /\ stream.stop = "cancel"
    /\ stream.text = "Hello"

(***************************************************************************)
(* Cancellation of a turn, checked under Spec.                             *)
(***************************************************************************)

(* C19: the sandbox honors the turn's cancellation signal: when the        *)
(* context of a GenerateResponseWithTools call is cancelled or its         *)
(* deadline passes while a shell command is running, the sandbox stops     *)
(* waiting and terminates the command, so that command never goes on to    *)
(* its own timeout.                                                        *)
C19_SandboxHonorsCancellation ==
    (/\ turn.pc = "tool"
     /\ turn.ctxDone
     /\ turn.cancelledIn = "select"
     /\ turn.cancelledAt = turn.next
     /\ shell.pc = "returned")
    => shell.outcome # "timeout"

(***************************************************************************)
(* Well-formedness of detected intents, checked under SpecParse.           *)
(***************************************************************************)
WellFormedIntent(intent) ==
    /\ intent.Tool # ""
    /\ intent.Confidence >= 0
    /\ intent.Confidence <= 100

(* C20: every Intent returned by parseIntentResponse or DetectIntent, for  *)
(* any model reply, has a non-empty tool name and a confidence within      *)
(* [0,1] (0 to 100 hundredths).                                            *)
C20_IntentsWellFormed ==
    /\ parse.pc = "parsed" =>
         /\ \A i \in DOMAIN parse.embedded : WellFormedIntent(parse.embedded[i])
         /\ \A i \in DOMAIN parse.bare : WellFormedIntent(parse.bare[i])
    /\ \A i \in DOMAIN turn.intents : WellFormedIntent(turn.intents[i])

(***************************************************************************)
(* The ToolResult of every call, checked under SpecTools.                  *)
(***************************************************************************)

(* C21: for every tool name and every argument map, the ToolResult         *)
(* returned by ExecuteTool has Name equal to the requested tool name and a *)
(* non-empty Content.                                                      *)
C21_ResultNamedAndNonEmpty ==
    call.pc = "done" =>
      /\ call.result.Name = call.name
      /\ call.result.Content # ""

(* The Name half alone. *)
ResultNamedAsRequested == call.pc = "done" => call.result.Name = call.name

(***************************************************************************)
(* The terminal front end's queue, checked under SpecTerminal.             *)
(***************************************************************************)
TuiQueued(line) == \E i \in DOMAIN tui.queued : tui.queued[i] = line

TuiRunning(line) == \E i \in DOMAIN tui.running : tui.running[i].prompt = line

(* C22: in the terminal front end a non-empty line entered while a turn is *)
(* in flight is queued and is eventually processed as its own turn after   *)
(* the current turn completes (unless the session is ended first); it is   *)
(* never discarded.                                                        *)
C22_QueuedLineEventuallyProcessed ==
    \A line \in {"hello", "hi"} :
        TuiQueued(line) ~> (TuiRunning(line) \/ tui.exited)

(***************************************************************************)
(* The detector's heuristics, checked under Spec.                          *)
(***************************************************************************)
\* the intent array decoded from the bracketed part of a reply; empty when
\* there are no brackets, when the part is no JSON array and when it is []
DecodedArray(response) ==
    LET jsonStart == Index(response, "[")
        jsonEnd   == LastIndex(response, "]")
    IN  IF jsonStart = -1 \/ jsonEnd = -1 \/ jsonEnd <= jsonStart THEN <<>>
        ELSE LET decoded == Unmarshal(SubSeq(response, jsonStart + 1, jsonEnd + 1))
             IN  IF decoded.ok THEN decoded.intents ELSE <<>>

(* C23: whenever the model reply does not parse to a non-empty intent      *)
(* array (no brackets, a malformed array, or an empty array), the detector *)
(* scans the reply text for tool names and returns one Intent per matched  *)
(* tool (confidence 0.6, or 0.8 for execute_command with a command) before *)
(* the keyword fallback is considered.                                     *)
C23_TextScanBeforeKeywordFallback ==
    [][(/\ turn.pc = "detect"
        /\ turn'.pc # "detect"
        /\ ~turn'.reply.failed
        /\ DecodedArray(turn'.reply.text) = <<>>
        /\ extractIntentsFromText(turn'.reply.text) # <<>>)
       => turn'.intents = extractIntentsFromText(turn'.reply.text)]_vars

\* the intents of the turn come from the detector's own heuristics only: the
\* model call failed, or its reply gave no intent array
FromHeuristics == turn.reply.failed \/ DecodedArray(turn.reply.text) = <<>>

(* C24: every confidence assigned by the detector's own heuristics (the    *)
(* keyword fallback and the reply text scan) is at or below the execution  *)
(* threshold, so an Intent that comes only from those heuristics is never  *)
(* handed to ExecuteTool by GenerateResponseWithTools.                     *)
C24_HeuristicIntentsNeverExecuted ==
    [][(turn.pc = "loop" /\ turn'.pc = "tool") =>
         ~FromHeuristics]_vars

(***************************************************************************)
(* The working directory, checked under SpecTools.                         *)
(***************************************************************************)

RECURSIVE UpToEnd(_)
UpToEnd(lines) ==
    IF lines = <<>> THEN <<>>
    ELSE IF Head(lines).raw = "json" /\ (Head(lines).done \/ Head(lines).error # "")
    THEN <<Head(lines)>>
    ELSE <<Head(lines)>> \o UpToEnd(Tail(lines))

\* the non-empty responses of the decodable lines, in order
RECURSIVE Responses(_)
Responses(lines) ==
    IF lines = <<>> THEN <<>>
    ELSE (IF Head(lines).raw = "json" /\ Head(lines).response # ""
          THEN <<Head(lines).response>> ELSE <<>>) \o Responses(Tail(lines))

IsPrefixOf(a, b) == Len(a) <= Len(b) /\ SubSeq(b, 1, Len(a)) = a

(* C26: for every provider and at every return point of                    *)
(* GenerateStreamingResponse (normal end, done marker, upstream error      *)
(* line, cancellation) the returned text is the in-order concatenation of  *)
(* exactly the chunks that were passed to the callback; no chunk is        *)
(* delivered after the object with done:true.  The chunks are the words of *)
(* the simulated answer, whose whole text a normal end returns, and for    *)
(* Ollama the responses of the lines up to the final line.                 *)
C26_TextIsConcatenationOfChunks ==
    /\ stream.text = Concat(stream.delivered)
    /\ IF stream.name = "Ollama"
       THEN /\ IsPrefixOf(stream.delivered, Responses(UpToEnd(stream.body)))
            /\ stream.stop \in {"done", "eof"} =>
                 stream.delivered = Responses(UpToEnd(stream.body))
       ELSE /\ IsPrefixOf(stream.text, StreamingAnswer(stream.name, stream.prompt))
            /\ stream.stop = "complete" =>
                 stream.text = StreamingAnswer(stream.name, stream.prompt)

C26_Witness ==
    /\ stream.pc = "returned"
    /\ stream.stop = "done"
    /\ stream.delivered = <<"Hi">>
    /\ stream.text = "Hi"
    /\ stream.pending = <<ChunkLine("late")>>

(***************************************************************************)
(* Turns without a model backend, checked under Spec.                      *)
(***************************************************************************)
ReadOnlyTools == {"get_working_directory", "get_system_info"}

\* a turn of internal/ai's OllamaProvider whose detection call failed: the
\* backend is unavailable and the intents are the keyword fallback's
BackendDown ==
    /\ turn.provider = Provider("internal/ai", "Ollama")
    /\ turn.pc \in {"loop", "tool", "done"}
    /\ turn.reply.failed

ShellConstructs == {";", "&", "|", "\n", BackQuote, "$("}

(* C28: a command accepted by isCommandSafe, when passed to "sh -c", runs  *)
(* exactly one simple command: no accepted command text contains a         *)
(* separator (";", "&&", "||", "|", a single "&", a newline) or a command  *)
(* substitution.                                                           *)
C28_AcceptedCommandIsOneSimpleCommand ==
    policy.verdict = "safe" =>
      \A construct \in ShellConstructs :
          ~Contains(TrimSpace(policy.command), construct)

(***************************************************************************)
(* Copying a file, checked under SpecTools.                                *)
(***************************************************************************)
CopySource == AbsPath(fs, StringOf(call.args, "source"))

CopyDestination == AbsPath(fs, StringOf(call.args, "destination"))

(* C29: CopyFile never changes the content of its source file: after any   *)
(* call, successful or not and for any source and destination names        *)
(* (destination equal to source included), the source file has the content *)
(* it had before, and after a successful call the destination has that     *)
(* content.                                                                *)
C29_CopyKeepsSource ==
    [][(/\ call.pc = "start"
        /\ call.name = "copy_file"
        /\ IsString(call.args, "source")
        /\ IsString(call.args, "destination")
        /\ IsFile(fs, CopySource))
       => /\ IsFile(fs', CopySource)
          /\ fs'.files[CopySource] = fs.files[CopySource]
          /\ call'.opOK => /\ IsFile(fs', CopyDestination)
                           /\ fs'.files[CopyDestination] = fs.files[CopySource]]_vars

(***************************************************************************)
(* Termination of the sandbox, checked under SpecShellLive.                *)
(***************************************************************************)

(* C30: ExecuteShellCommand produces exactly one result string per call    *)
(* and never blocks for ever: the caller returns once the child has        *)
(* finished or the watchdog bound has elapsed, the result it returned is   *)
(* not replaced, and the goroutine's send of the child's completion goes   *)
(* through even when the caller has already returned on timeout.           *)
C30_SandboxAlwaysReturnsOnce ==
    /\ (shell.pc = "call") ~> (shell.pc = "returned" /\ shell.result # NoResult)
    /\ (shell.worker = "finished") ~> (shell.worker = "sent")
    /\ [][shell.pc = "returned" =>
            (shell'.pc = "returned" /\ shell'.result = shell.result)]_vars

C30_Witness ==
    /\ shell.pc = "returned"
    /\ shell.outcome = "timeout"
    /\ shell.result = TimeoutMessage(shell.bound)
    /\ shell.worker = "sent"
    /\ Len(shell.done) = 1

====
